---- MODULE Spec2Model ----
(***************************************************************************)
(* A model of the two batch pipelines of ConceptSectionStockScreening:     *)
(*   concept_section_screening.py  (sector fund-flow pipeline, history     *)
(*                                  store, frequency statistics, report)   *)
(*   lianban_scraper.py            (consecutive-limit stock pipeline:      *)
(*                                  source adapters, filter, enrich, save) *)
(*                                                                         *)
(* Calendar dates are the strings strftime('%Y-%m-%d') produces; they are  *)
(* fixed-width and zero-padded, so their lexicographic order is the order  *)
(* of the day numbers 1..NumDates used here.  Monetary values, rates and   *)
(* prices are fixed-point integers (hundredths), so that 20.0 and 20.01    *)
(* are 2000 and 2001.                                                      *)
(***************************************************************************)
EXTENDS Integers, Sequences, FiniteSets, TLC

(***************************************************************************)
(* Bounds of the model and constants of the program.                       *)
(***************************************************************************)
\* number of distinct calendar dates the history runs may see
NumDates == 11
\* number of successful update_historical_data calls followed in one history run
MaxCalls == 2
\* number of calendar dates of the stores the statistics are computed over
StatDates == 6
\* length of the longest list filter_stocks is given
MaxStocks == 3
\* length of the texts parse_money_value is given, a few longer ones apart
MaxText == 3
\* number of columns of the tables standardize_column_names is given
MaxColumns == 3

\* concept_section_screening.py:386  "if len(dates) > 10" / dates[:-10]
HistoryDays == 10
\* concept_section_screening.py:416  sorted(...)[-5:]
StatDays == 5
\* concept_section_screening.py:424  [:10]
TopN == 10

VARIABLES
    \* ---- files of the sector pipeline ----
    historical_data,    \* concept_section_history.json: date -> snapshot
    sorted_concepts,    \* what generate_historical_statistics last ranked
    report,             \* concept_section_report.html, as the data it renders
    concept_data,       \* concept_section_data.json: [exists, concepts]
    histError,          \* TRUE when the last update logged 更新历史数据失败
    ranked,             \* [done, hd]: the store the last ranking was computed from
    \* ---- bookkeeping of a history run ----
    histBefore,         \* the store before the last successful call
    lastCall,           \* [date, names] of the last successful call
    prevCall,           \* [date, names] of the call before it
    nCalls,             \* successful calls so far
    \* ---- the stock pipeline (lianban_scraper.py) ----
    akshare_available,  \* AKSHARE_AVAILABLE
    spc,                \* where main of lianban_scraper.py is
    calls,              \* the adapters scrape_lianban_stocks invoked, with results
    fetches,            \* every provider fetch made, in order
    raw_stocks,         \* what scrape_lianban_stocks returned: [kind, stocks]
    filter_input,       \* the list filter_stocks was given, as it was given
    filtered_stocks,    \* what filter_stocks returned
    enhanced_stocks,    \* what enhance_stock_data returned
    selected_stocks,    \* selected_stocks.json: [exists, stocks]
    stock_log,          \* the outcomes main and save_to_json logged
    \* ---- one run of main of concept_section_screening.py ----
    cpc,                \* where the run is
    attempt,            \* the loop variable of the retry loop
    sector_calls,       \* the source adapters the run invoked, in order
    data,               \* response.json() of the request that succeeded
    top_concepts,       \* what get_top_concept_sections returned: [kind, exc, concepts]
    summary,            \* the lines main logged for the records
    sector_log,         \* what the run logged, in order
    \* ---- one call of a function on its own ----
    fn_args,            \* the function called and its arguments
    fn_result           \* what it returned: [done, value]

fileVars == <<historical_data, sorted_concepts, report, concept_data, histError, ranked>>
traceVars == <<histBefore, lastCall, prevCall, nCalls>>

stockVars == <<akshare_available, spc, calls, fetches, raw_stocks, filter_input,
               filtered_stocks, enhanced_stocks, selected_stocks, stock_log>>

runVars == <<cpc, attempt, sector_calls, data, top_concepts, summary, sector_log>>

callVars == <<fn_args, fn_result>>

vars == <<fileVars, traceVars, stockVars, runVars, callVars>>

(***************************************************************************)
(* Python helpers.                                                         *)
(***************************************************************************)
Min(S) == CHOOSE x \in S : \A y \in S : x <= y
Max(S) == CHOOSE x \in S : \A y \in S : x >= y

\* sorted(keys): the ascending sequence of a finite set of day numbers
RECURSIVE Sorted(_)
Sorted(S) == IF S = {} THEN <<>> ELSE <<Min(S)>> \o Sorted(S \ {Min(S)})

\* seq[:-n] for n > 0
DropLast(seq, n) == IF Len(seq) > n THEN SubSeq(seq, 1, Len(seq) - n) ELSE <<>>
\* seq[-n:] for n > 0
TakeLast(seq, n) == IF Len(seq) > n THEN SubSeq(seq, Len(seq) - n + 1, Len(seq)) ELSE seq
\* seq[:n] for n >= 0
TakeFirst(seq, n) == IF Len(seq) > n THEN SubSeq(seq, 1, n) ELSE seq

Range(seq) == {seq[i] : i \in 1..Len(seq)}

(***************************************************************************)
(* The history store (update_historical_data).                             *)
(***************************************************************************)
\* [concept['name'] for concept in concepts]
ConceptNames(concepts) == [i \in 1..Len(concepts) |-> concepts[i].name]

\* the value stored under current_date
Snapshot(current_date, concept_names) ==
    [date |-> current_date, concepts |-> concept_names, count |-> Len(concept_names)]

\* a variant that extends the entry the date already has instead of replacing it
AddTodayExtending(hd, current_date, concept_names) ==
    [k \in DOMAIN hd \cup {current_date} |->
        IF k # current_date THEN hd[k]
        ELSE IF k \in DOMAIN hd
             THEN Snapshot(current_date, hd[k].concepts \o concept_names)
             ELSE Snapshot(current_date, concept_names)]

\* historical_data['historical_data'][current_date] = {...}
AddToday(hd, current_date, concept_names) ==
    [k \in DOMAIN hd \cup {current_date} |->
        IF k = current_date THEN Snapshot(current_date, concept_names) ELSE hd[k]]

\* a variant that deletes dates[10:], the newest dates, instead of dates[:-10]
OldDatesFromTheEnd(hd) ==
    LET dates == Sorted(DOMAIN hd)
    IN  IF Len(dates) > HistoryDays
        THEN SubSeq(dates, HistoryDays + 1, Len(dates))
        ELSE <<>>

\* dates[:-10] of the sorted keys, when there are more than 10 of them
OldDates(hd) ==
    LET dates == Sorted(DOMAIN hd)
    IN  IF Len(dates) > HistoryDays THEN DropLast(dates, HistoryDays) ELSE <<>>

\* for old_date in dates[:-10]: del historical_data['historical_data'][old_date]
KeepRecent(hd) == [k \in DOMAIN hd \ Range(OldDates(hd)) |-> hd[k]]

\* the store update_historical_data writes back
UpdatedHistory(hd, current_date, concepts) ==
    KeepRecent(AddToday(hd, current_date, ConceptNames(concepts)))

(***************************************************************************)
(* The frequency ranking (generate_historical_statistics).                 *)
(* concept_count is a dict: its items() come in first-insertion order, so  *)
(* it is a sequence of <<name, count>> pairs here.                         *)
(***************************************************************************)
\* concept_count[concept] = concept_count.get(concept, 0) + 1
Bump(concept_count, concept) ==
    IF \E i \in 1..Len(concept_count) : concept_count[i][1] = concept
    THEN [i \in 1..Len(concept_count) |->
            IF concept_count[i][1] = concept
            THEN <<concept, concept_count[i][2] + 1>>
            ELSE concept_count[i]]
    ELSE Append(concept_count, <<concept, 1>>)

\* for concept in concepts: ...
RECURSIVE CountNames(_, _)
CountNames(concept_count, concepts) ==
    IF concepts = <<>> THEN concept_count
    ELSE CountNames(Bump(concept_count, Head(concepts)), Tail(concepts))

\* for date in dates: concepts = historical_data[...][date]['concepts'] ...
RECURSIVE CountDates(_, _, _)
CountDates(concept_count, hd, dates) ==
    IF dates = <<>> THEN concept_count
    ELSE CountDates(CountNames(concept_count, hd[Head(dates)].concepts), hd, Tail(dates))

\* sorted(historical_data['historical_data'].keys())[-5:]
RecentDates(hd) == TakeLast(Sorted(DOMAIN hd), StatDays)

\* a variant that puts an item before the items of equal count (not stable)
InsertByCountBeforeTies(sorted, item) ==
    LET n == Cardinality({i \in 1..Len(sorted) : sorted[i][2] > item[2]})
    IN  SubSeq(sorted, 1, n) \o <<item>> \o SubSeq(sorted, n + 1, Len(sorted))

\* where sorted(..., reverse=True) puts an item: after every item whose
\* count is at least its own (the sort is stable)
InsertByCount(sorted, item) ==
    LET n == Cardinality({i \in 1..Len(sorted) : sorted[i][2] >= item[2]})
    IN  SubSeq(sorted, 1, n) \o <<item>> \o SubSeq(sorted, n + 1, Len(sorted))

\* sorted(concept_count.items(), key=lambda x: x[1], reverse=True)
RECURSIVE SortByCount(_, _)
SortByCount(sorted, items) ==
    IF items = <<>> THEN sorted
    ELSE SortByCount(InsertByCount(sorted, Head(items)), Tail(items))

GenerateHistoricalStatistics(hd) ==
    TakeFirst(SortByCount(<<>>, CountDates(<<>>, hd, RecentDates(hd))), TopN)

(***************************************************************************)
(* The report (update_html_report, generate_html_content), as the data the *)
(* markup shows.  frequency is f"{(count/total_days)*100:.1f}%" in tenths  *)
(* of a percent; total_days is 1..5, so no value falls on a rounding tie.  *)
(***************************************************************************)
\* a variant that divides by every date of the store
TotalDaysOfStore(hd) == Cardinality(DOMAIN hd)

TotalDays(hd) == IF Cardinality(DOMAIN hd) < StatDays THEN Cardinality(DOMAIN hd) ELSE StatDays

Frequency(count, total_days) ==
    IF total_days > 0 THEN (2 * count * 1000 + total_days) \div (2 * total_days) ELSE 0

GenerateHtmlContent(current_data, ranking, hd) ==
    [concepts |-> current_data.concepts,
     ranking |-> [i \in 1..Len(ranking) |->
                    [concept |-> ranking[i][1], count |-> ranking[i][2],
                     frequency |-> Frequency(ranking[i][2], TotalDays(hd))]],
     history_days |-> Cardinality(DOMAIN hd),
     total_days |-> TotalDays(hd)]

NoReport == [concepts |-> <<>>, ranking |-> <<>>, history_days |-> 0, total_days |-> 0]
NoConceptData == [exists |-> FALSE, concepts |-> <<>>]
NotRanked == [done |-> FALSE, hd |-> <<>>]

(***************************************************************************)
(* generate_historical_statistics(historical_data), with its call of       *)
(* update_html_report; reportOk: writing the report file succeeds.         *)
(* update_html_report reads concept_section_data.json as the run left it.  *)
(***************************************************************************)
RankAndReport(hd, reportOk) ==
    /\ sorted_concepts' = GenerateHistoricalStatistics(hd)
    /\ ranked' = [done |-> TRUE, hd |-> hd]
    /\ report' = IF reportOk
                 THEN GenerateHtmlContent(concept_data', sorted_concepts', hd)
                 ELSE report

(***************************************************************************)
(* update_historical_data(concepts), with the calls it makes:              *)
(* generate_historical_statistics and update_html_report.  Each of the     *)
(* three catches every exception, logs it and returns.                     *)
(*   fileOk   reading and writing concept_section_history.json succeed     *)
(*   reportOk writing concept_section_report.html succeeds                 *)
(***************************************************************************)
UpdateHistoricalData(concepts, current_date, fileOk, reportOk) ==
    IF fileOk
    THEN /\ historical_data' = UpdatedHistory(historical_data, current_date, concepts)
         /\ RankAndReport(historical_data', reportOk)
         /\ histError' = FALSE
    ELSE /\ histError' = TRUE
         /\ UNCHANGED <<historical_data, sorted_concepts, report, ranked>>

(***************************************************************************)
(* Values of the stock pipeline.                                           *)
(* A name is a sequence of characters; "x" and "y" stand for characters    *)
(* that are neither S, T, *, ? nor ! (a Chinese character, say).  Prices,  *)
(* rates, ratios and money are in hundredths.  A dict is a function from   *)
(* its keys.  A provider cell is a number, a text that float() rejects     *)
(* with ValueError ("-"), or null, which float() rejects with TypeError.   *)
(***************************************************************************)
Num(x) == [t |-> "num", v |-> x]
Dash == [t |-> "str", v |-> 0]
Null == [t |-> "null", v |-> 0]

\* dict.get(key, default)
Get(dict, key, default) == IF key \in DOMAIN dict THEN dict[key] ELSE default

\* dict[key] = value
SetKey(dict, key, value) ==
    [k \in DOMAIN dict \cup {key} |-> IF k = key THEN value ELSE dict[k]]

Abs(x) == IF x < 0 THEN -x ELSE x

\* datetime.now().strftime('%Y-%m-%d %H:%M:%S') of the run
Now == "now"

(***************************************************************************)
(* filter_stocks                                                           *)
(***************************************************************************)
\* re.IGNORECASE on the letters of the pattern
IsS(c) == c \in {"S", "s"}
IsT(c) == c \in {"T", "t"}

\* the pattern \*?ST matches at position i: with the optional * or without
MatchesSTAt(name, i) ==
    \/ /\ i + 2 <= Len(name)
       /\ name[i] = "*" /\ IsS(name[i + 1]) /\ IsT(name[i + 2])
    \/ /\ i + 1 <= Len(name)
       /\ IsS(name[i]) /\ IsT(name[i + 1])

\* re.search(r'\*?ST', name, re.IGNORECASE)
SearchST(name) == \E i \in 1..Len(name) : MatchesSTAt(name, i)

\* re.search(r'[\*\?\!]', name)
SearchSpecial(name) == \E i \in 1..Len(name) : name[i] \in {"*", "?", "!"}

\* a variant of the change-rate test that also rejects exactly 20%
RateAbnormalFromTwenty(stock) == Abs(Get(stock, "change_rate", 0)) >= 2000

\* abs(stock.get('change_rate', 0)) > 20
RateAbnormal(stock) == Abs(Get(stock, "change_rate", 0)) > 2000

\* the five tests of the loop body, each ending in `continue`
Rejected(stock) ==
    \/ SearchST(Get(stock, "name", <<>>))
    \/ SearchSpecial(Get(stock, "name", <<>>))
    \/ Get(stock, "price", 0) <= 0
    \/ RateAbnormal(stock)
    \/ Get(stock, "lianban_days", 0) <= 0

\* a variant that appends the stock as it came
MarkedAsIs(stock) == stock

\* stock['is_st'] = False
Marked(stock) == SetKey(stock, "is_st", FALSE)

RECURSIVE FilterStocks(_)
FilterStocks(stocks) ==
    IF stocks = <<>> THEN <<>>
    ELSE IF Rejected(Head(stocks))
         THEN FilterStocks(Tail(stocks))
         ELSE <<Marked(Head(stocks))>> \o FilterStocks(Tail(stocks))

\* the caller's list after the call: the dicts that pass are marked in place
AfterFilter(stocks) ==
    [i \in 1..Len(stocks) |->
        IF Rejected(stocks[i]) THEN stocks[i] ELSE Marked(stocks[i])]

(***************************************************************************)
(* enhance_stock_data                                                      *)
(* risk levels: "high" 高风险, "medium-high" 中高风险, "medium" 中等风险,  *)
(* "low" 低风险.  limit_intensity = change_rate / 10.0 is in thousandths;  *)
(* fund_efficiency is the fraction fund_inflow / market_value.             *)
(***************************************************************************)
\* a variant whose turnover bounds are not strict
RiskLevelFromBound(lianban_days, turnover_rate) ==
    IF lianban_days >= 5 /\ turnover_rate >= 2000 THEN "high"
    ELSE IF lianban_days >= 3 /\ turnover_rate >= 1500 THEN "medium-high"
    ELSE IF lianban_days >= 2 /\ turnover_rate >= 1000 THEN "medium"
    ELSE "low"

RiskLevel(lianban_days, turnover_rate) ==
    IF lianban_days >= 5 /\ turnover_rate > 2000 THEN "high"
    ELSE IF lianban_days >= 3 /\ turnover_rate > 1500 THEN "medium-high"
    ELSE IF lianban_days >= 2 /\ turnover_rate > 1000 THEN "medium"
    ELSE "low"

FundEfficiency(stock) ==
    IF stock["market_value"] > 0
    THEN [num |-> stock["fund_inflow"], den |-> stock["market_value"]]
    ELSE [num |-> 0, den |-> 1]

Enhanced(stock) ==
    LET risk_level == RiskLevel(stock["lianban_days"], stock["turnover_rate"])
        added == [limit_intensity |-> stock["change_rate"],
                  fund_efficiency |-> FundEfficiency(stock),
                  risk_level |-> risk_level,
                  selection_reason |-> <<stock["lianban_days"], risk_level>>]
    IN  [k \in DOMAIN stock \cup DOMAIN added |->
            IF k \in DOMAIN added THEN added[k] ELSE stock[k]]

EnhanceStockData(stocks) == [i \in 1..Len(stocks) |-> Enhanced(stocks[i])]

NoFile == [exists |-> FALSE, stocks |-> <<>>]
NotScraped == [kind |-> "unset", stocks |-> <<>>]

(***************************************************************************)
(* Provider data of the stock pipeline.  The columns of the akshare frame  *)
(* are daima 代码, mingcheng 名称, zuixinjia 最新价, zhangdiefu 涨跌幅,    *)
(* liutongshizhi 流通市值, huanshoulv 换手率, shiyinglv 市盈率.            *)
(***************************************************************************)
Quote(code, name, price, change_rate) ==
    [code |-> code, name |-> name, price |-> price, change_rate |-> change_rate]

AkshareRow(q) ==
    [daima |-> q.code, mingcheng |-> q.name, zuixinjia |-> q.price,
     zhangdiefu |-> q.change_rate, liutongshizhi |-> Num(500000),
     huanshoulv |-> Num(1200), shiyinglv |-> Num(1500)]

ApiItem(q) ==
    [f12 |-> q.code, f14 |-> q.name, f2 |-> q.price, f3 |-> q.change_rate,
     f4 |-> Num(95), f5 |-> Num(100000), f6 |-> Num(105000000), f7 |-> Num(300),
     f8 |-> Num(1200), f39 |-> Num(1500), f46 |-> Num(210), f20 |-> Num(500000)]

Quotes ==
    [plain |-> Quote("600001", <<"x", "y">>, Num(1050), Num(1001)),
     other |-> Quote("600002", <<"y">>, Num(880), Num(998)),
     st    |-> Quote("600003", <<"*", "S", "T", "x">>, Num(500), Num(1000)),
     slow  |-> Quote("600004", <<"x">>, Num(700), Num(310)),
     dash  |-> Quote("600005", <<"y", "x">>, Dash, Num(1002)),
     null  |-> Quote("600006", <<"y", "y">>, Null, Num(1003))]

\* the quote lists a provider may answer with
QuoteLists ==
    { <<>>, <<Quotes.plain>>, <<Quotes.plain, Quotes.other>>,
      <<Quotes.st, Quotes.plain>>, <<Quotes.slow>>, <<Quotes.st>>,
      <<Quotes.dash, Quotes.other>>, <<Quotes.other, Quotes.null>> }

AkshareRows(quotes) == [i \in 1..Len(quotes) |-> AkshareRow(quotes[i])]
ApiItems(quotes) == [i \in 1..Len(quotes) |-> ApiItem(quotes[i])]

(***************************************************************************)
(* scrape_lianban_with_akshare.  frame: [raises, rows], what               *)
(* ak.stock_zh_a_spot_em() does.  Every exception inside is caught: the    *)
(* fallback that follows returns [] whether it raises or not.              *)
(***************************************************************************)
\* 'ST' in str(row.get('名称', ''))
ContainsST(name) ==
    \E i \in 1..(Len(name) - 1) : name[i] = "S" /\ name[i + 1] = "T"

AkshareCells(row) ==
    {row.zuixinjia, row.zhangdiefu, row.liutongshizhi, row.huanshoulv, row.shiyinglv}

AkshareStock(row) ==
    [code |-> row.daima, name |-> row.mingcheng, price |-> row.zuixinjia.v,
     change_rate |-> row.zhangdiefu.v, lianban_days |-> 1, is_new_stock |-> FALSE,
     first_limit_time |-> "", last_limit_time |-> "", limit_type |-> "zhangting",
     fund_inflow |-> 0, market_value |-> row.liutongshizhi.v,
     turnover_rate |-> row.huanshoulv.v, pe_ratio |-> row.shiyinglv.v,
     is_st |-> ContainsST(row.mingcheng), update_time |-> Now]

\* stock_data['涨跌幅'] >= 9.9
IsLimitUp(row) == row.zhangdiefu.v >= 990

ScrapeLianbanWithAkshare(frame) ==
    IF frame.raises \/ frame.rows = <<>> THEN <<>>
    ELSE IF \E i \in 1..Len(frame.rows) : frame.rows[i].zhangdiefu.t # "num" THEN <<>>
    ELSE LET limit_up_stocks == SelectSeq(frame.rows, IsLimitUp)
         IN  IF \E i \in 1..Len(limit_up_stocks) :
                    \E c \in AkshareCells(limit_up_stocks[i]) : c.t # "num"
             THEN <<>>
             ELSE [i \in 1..Len(limit_up_stocks) |-> AkshareStock(limit_up_stocks[i])]

(***************************************************************************)
(* scrape_lianban_stocks_list and scrape_lianban_stocks_api.               *)
(* response: [kind, diff]; kind is "request_error" (requests raised),      *)
(* "bad_json", "rc_error" (rc != 0), "no_data" (no data or no diff) or     *)
(* "items".                                                                *)
(***************************************************************************)
\* the cells float() is applied to, in the order of the dict display
ApiCells(item) ==
    <<item.f2, item.f3, item.f4, item.f5, item.f6, item.f7, item.f8,
      item.f39, item.f46, item.f20>>

\* the first cell float() rejects, or a number cell when it rejects none
FirstRejected(item) ==
    LET cells == ApiCells(item)
        bad == {i \in 1..Len(cells) : cells[i].t # "num"}
    IN  IF bad = {} THEN Num(0) ELSE cells[Min(bad)]

\* float() raises ValueError: the item is skipped
ItemSkipped(item) == FirstRejected(item).t = "str"
\* float() raises TypeError: caught by the function's last handler
ItemAborts(item) == FirstRejected(item).t = "null"
ItemParses(item) == FirstRejected(item).t = "num"

ApiStock(item) ==
    [code |-> item.f12, name |-> item.f14, price |-> item.f2.v,
     change_rate |-> item.f3.v, change_amount |-> item.f4.v, volume |-> item.f5.v,
     amount |-> item.f6.v, amplitude |-> item.f7.v, turnover_rate |-> item.f8.v,
     pe_ratio |-> item.f39.v, pb_ratio |-> item.f46.v, market_value |-> item.f20.v,
     fund_inflow |-> 0, lianban_days |-> 1, is_new_stock |-> FALSE,
     first_limit_time |-> "", last_limit_time |-> "", limit_type |-> "lianban",
     is_st |-> FALSE, update_time |-> Now]

ScrapeLianbanStocksList(response) ==
    IF response.kind # "items" THEN <<>>
    ELSE IF \E i \in 1..Len(response.diff) : ItemAborts(response.diff[i]) THEN <<>>
    ELSE LET parsed == SelectSeq(response.diff, ItemParses)
         IN  [i \in 1..Len(parsed) |-> ApiStock(parsed[i])]

ScrapeLianbanStocksApi(response) == ScrapeLianbanStocksList(response)

ApiResponses ==
    { [kind |-> k, diff |-> <<>>] : k \in {"request_error", "bad_json", "rc_error", "no_data"} }
    \cup { [kind |-> "items", diff |-> ApiItems(quotes)] : quotes \in QuoteLists \ {<<>>} }

\* a frame holds numbers and texts: a missing number is NaN, which is a float
AkshareQuoteLists ==
    { quotes \in QuoteLists : \A i \in 1..Len(quotes) : quotes[i].price.t # "null" }

AkshareFrames ==
    { [raises |-> TRUE, rows |-> <<>>] }
    \cup { [raises |-> FALSE, rows |-> AkshareRows(quotes)] : quotes \in AkshareQuoteLists }

(***************************************************************************)
(* scrape_lianban_from_webpage.  page is what the request brings:          *)
(*   "request_error"  requests raised                                      *)
(*   "data_array"     a script assigns a JSON list to a var ...data...:    *)
(*                    the next line names self, which no module-level      *)
(*                    function has; the NameError is caught by the last    *)
(*                    handler                                              *)
(*   "code_pattern"   no such list, but the stock-code pattern is found:   *)
(*                    again self, again the last handler                   *)
(*   "no_data"        neither: stock_data_found stays False and the        *)
(*                    function returns scrape_lianban_stocks_api()         *)
(***************************************************************************)
Pages == {"request_error", "data_array", "code_pattern", "no_data"}

ScrapeLianbanFromWebpage(page, response) ==
    IF page = "no_data" THEN ScrapeLianbanStocksApi(response) ELSE <<>>

\* a provider fetch and what it brought
Fetch(target, answer) == [to |-> target, answer |-> answer]

\* the provider fetches the webpage adapter makes
WebpageFetches(page, response) ==
    IF page = "no_data"
    THEN <<Fetch("webpage", page), Fetch("api", response)>>
    ELSE <<Fetch("webpage", page)>>

(***************************************************************************)
(* scrape_lianban_stocks: the adapters in turn.                            *)
(***************************************************************************)
\* a variant that goes on to the next adapter whatever akshare returned
AfterAdapterIgnoringAkshare(adapter, stocks) ==
    IF adapter = "akshare" THEN "api"
    ELSE IF stocks # <<>> THEN "scraped"
    ELSE IF adapter = "api" THEN "webpage"
    ELSE "scraped"

\* `if stocks: return stocks`, else the next try block (or the end)
AfterAdapter(adapter, stocks) ==
    IF stocks # <<>> THEN "scraped"
    ELSE IF adapter = "akshare" THEN "api"
    ELSE IF adapter = "api" THEN "webpage"
    ELSE "scraped"

\* what the function has returned when it is left after this adapter:
\* the adapter's list, or None when control runs off the end of the function
Returned(adapter, stocks) ==
    IF stocks # <<>> THEN [kind |-> "list", stocks |-> stocks]
    ELSE IF adapter = "webpage" THEN [kind |-> "None", stocks |-> <<>>]
    ELSE NotScraped

\* the bookkeeping of one adapter call
Invoke(adapter, stocks, fetched) ==
    /\ calls' = Append(calls, [adapter |-> adapter, stocks |-> stocks])
    /\ fetches' = fetches \o fetched
    /\ spc' = AfterAdapter(adapter, stocks)
    /\ raw_stocks' = Returned(adapter, stocks)
    /\ UNCHANGED <<akshare_available, filter_input, filtered_stocks, enhanced_stocks,
                   selected_stocks, stock_log>>
    /\ UNCHANGED <<fileVars, traceVars, runVars, callVars>>

\* main starts and calls scrape_lianban_stocks
MainStart ==
    /\ spc = "idle"
    /\ spc' = IF akshare_available THEN "akshare" ELSE "api"
    /\ stock_log' = Append(stock_log, "start")
    /\ UNCHANGED <<akshare_available, calls, fetches, raw_stocks, filter_input,
                   filtered_stocks, enhanced_stocks, selected_stocks>>
    /\ UNCHANGED <<fileVars, traceVars, runVars, callVars>>

TryAkshare ==
    /\ spc = "akshare"
    /\ \E frame \in AkshareFrames :
          Invoke("akshare", ScrapeLianbanWithAkshare(frame), <<Fetch("akshare", frame)>>)

TryApi ==
    /\ spc = "api"
    /\ \E response \in ApiResponses :
          Invoke("api", ScrapeLianbanStocksApi(response), <<Fetch("api", response)>>)

TryWebpage ==
    /\ spc = "webpage"
    /\ \E page \in Pages :
          \E response \in IF page = "no_data" THEN ApiResponses ELSE {[kind |-> "none", diff |-> <<>>]} :
              Invoke("webpage", ScrapeLianbanFromWebpage(page, response),
                     WebpageFetches(page, response))

(***************************************************************************)
(* main of lianban_scraper.py after the scrape: filter, enhance, save.     *)
(***************************************************************************)

\* `not raw_stocks`: None and the empty list are both falsy
Falsy(returned) == returned.kind = "None" \/ returned.stocks = <<>>

\* raw_stocks = scrape_lianban_stocks() came back falsy: log and return
MainNoData ==
    /\ spc = "scraped"
    /\ Falsy(raw_stocks)
    /\ stock_log' = Append(stock_log, "no_data")
    /\ spc' = "done"
    /\ UNCHANGED <<akshare_available, calls, fetches, raw_stocks, filter_input,
                   filtered_stocks, enhanced_stocks, selected_stocks>>
    /\ UNCHANGED <<fileVars, traceVars, runVars, callVars>>

\* filtered_stocks = filter_stocks(raw_stocks), and the return when none is left
MainFilter ==
    /\ spc = "scraped"
    /\ ~Falsy(raw_stocks)
    /\ filter_input' = raw_stocks.stocks
    /\ filtered_stocks' = FilterStocks(raw_stocks.stocks)
    /\ raw_stocks' = [raw_stocks EXCEPT !.stocks = AfterFilter(raw_stocks.stocks)]
    /\ IF filtered_stocks' = <<>>
       THEN /\ stock_log' = Append(stock_log, "none_left")
            /\ spc' = "done"
       ELSE /\ stock_log' = stock_log
            /\ spc' = "filtered"
    /\ UNCHANGED <<akshare_available, calls, fetches, enhanced_stocks, selected_stocks>>
    /\ UNCHANGED <<fileVars, traceVars, runVars, callVars>>

\* enhanced_stocks = enhance_stock_data(filtered_stocks)
MainEnhance ==
    /\ spc = "filtered"
    /\ enhanced_stocks' = EnhanceStockData(filtered_stocks)
    /\ spc' = "enhanced"
    /\ UNCHANGED <<akshare_available, calls, fetches, raw_stocks, filter_input,
                   filtered_stocks, selected_stocks, stock_log>>
    /\ UNCHANGED <<fileVars, traceVars, runVars, callVars>>

\* save_to_json(enhanced_stocks, output_file) and the statistics main logs;
\* a failure to write is caught and logged by save_to_json
MainSave ==
    /\ spc = "enhanced"
    /\ \E saveOk \in BOOLEAN :
          IF saveOk
          THEN /\ selected_stocks' = [exists |-> TRUE, stocks |-> enhanced_stocks]
               /\ stock_log' = Append(stock_log, "saved")
          ELSE /\ selected_stocks' = selected_stocks
               /\ stock_log' = Append(stock_log, "save_failed")
    /\ spc' = "done"
    /\ UNCHANGED <<akshare_available, calls, fetches, raw_stocks, filter_input,
                   filtered_stocks, enhanced_stocks>>
    /\ UNCHANGED <<fileVars, traceVars, runVars, callVars>>

(***************************************************************************)
(* Stock records the filter and enrich stages are checked on.              *)
(***************************************************************************)
MakeStock(code, name, price, change_rate, lianban_days, turnover_rate, money, is_st) ==
    [code |-> code, name |-> name, price |-> price, change_rate |-> change_rate,
     lianban_days |-> lianban_days, is_new_stock |-> FALSE,
     first_limit_time |-> "", last_limit_time |-> "", limit_type |-> "lianban",
     fund_inflow |-> money[1], market_value |-> money[2],
     turnover_rate |-> turnover_rate, pe_ratio |-> 1234,
     is_st |-> is_st, update_time |-> Now]

\* a dict without one of its keys
Without(dict, key) == [k \in DOMAIN dict \ {key} |-> dict[k]]

StockNames ==
    { <<"x", "y">>, <<>>, <<"S", "x", "T">>, <<"T", "S">>,
      <<"*", "S", "T", "x", "y">>, <<"S", "T", "x">>, <<"x", "s", "t">>,
      <<"x", "?">>, <<"!", "x">>, <<"x", "*">> }
StockPrices == {-1, 0, 1050}
StockRates == {-2001, -2000, 995, 2000, 2001}
StockDays == {-1, 0, 1, 2, 3, 4, 5}
StockTurnovers == {1000, 1001, 1500, 1501, 2000, 2001, 2500}
StockMoney == {<<0, 0>>, <<300, 5000>>}

\* every single record over the field values above
SingleStocks ==
    { MakeStock("600000", name, price, change_rate, lianban_days, turnover_rate, money, is_st) :
        name \in StockNames, price \in StockPrices, change_rate \in StockRates,
        lianban_days \in StockDays, turnover_rate \in StockTurnovers,
        money \in StockMoney, is_st \in BOOLEAN }

\* the records the longer lists are made of
ListedStocks ==
    { MakeStock("000001", <<"x", "y">>, 1050, 2000, 2, 1000, <<300, 5000>>, FALSE),
      MakeStock("000002", <<"y">>, 880, 1001, 5, 2500, <<0, 0>>, TRUE),
      MakeStock("000003", <<"*", "S", "T", "x", "y">>, 500, 501, 3, 1600, <<0, 0>>, TRUE),
      MakeStock("000004", <<"x">>, 990, 2001, 1, 300, <<0, 0>>, FALSE),
      Without(MakeStock("000005", <<"y", "x">>, 0, 998, 1, 300, <<0, 0>>, FALSE), "price"),
      Without(MakeStock("000006", <<"y", "y">>, 700, 998, 0, 300, <<0, 0>>, FALSE), "lianban_days") }

StockLists ==
    { <<s>> : s \in SingleStocks }
    \cup UNION { [1..n -> ListedStocks] : n \in 2..MaxStocks }

\* the dates the clock may show
Dates == 1..NumDates

(***************************************************************************)
(* The sector pipeline: get_top_concept_sections and main of               *)
(* concept_section_screening.py.  Money and rates are integers.  A         *)
(* response is the decoded body: rc and data, data being a dict with a     *)
(* diff list, null, or absent.                                             *)
(***************************************************************************)
\* max_retries = 3
max_retries == 3
\* data['data']['diff'][:10]
FirstItems == 10

NoResponse == [rc |-> 0, data |-> [t |-> "none", diff |-> <<>>]]
NotFetched == [kind |-> "unset", exc |-> "", concepts |-> <<>>]

\* the names of the sectors the provider lists, by rank
SectorNames == <<"A", "B", "C", "D", "E", "F", "G", "H", "I", "J", "K", "L">>

\* the item the provider sends for the sector of rank i, its f3 being cell
SectorItem(i, cell) ==
    [f12 |-> SectorNames[i], f14 |-> SectorNames[i], f2 |-> Num(1000 + i), f3 |-> cell,
     f62 |-> Num(90 * i), f184 |-> Num(i), f66 |-> Num(100 * i), f69 |-> Num(2 * i),
     f72 |-> Num(7 - 10 * i), f75 |-> Num(3), f78 |-> Num(-5 * i), f81 |-> Num(-1),
     f84 |-> Num(-4 * i), f87 |-> Num(-2), f204 |-> "stock", f205 |-> "600000",
     f124 |-> "1700000000"]

\* n items, the one of rank bad (if any) with a cell float() rejects
SectorItems(n, bad, cell) ==
    [i \in 1..n |-> SectorItem(i, IF i = bad THEN cell ELSE Num(i))]

DataDict(diff) == [t |-> "dict", diff |-> diff]
DataNull == [t |-> "null", diff |-> <<>>]
DataAbsent == [t |-> "absent", diff |-> <<>>]

\* the responses of the provider
SectorResponses ==
    { [rc |-> 0, data |-> DataDict(SectorItems(2, 0, Dash))],
      [rc |-> 0, data |-> DataDict(SectorItems(FirstItems, 0, Dash))],
      [rc |-> 0, data |-> DataDict(SectorItems(FirstItems + 2, 0, Dash))],
      [rc |-> 0, data |-> DataDict(SectorItems(FirstItems, 3, Dash))],
      [rc |-> 0, data |-> DataDict(SectorItems(FirstItems, 3, Null))],
      [rc |-> 0, data |-> DataDict(SectorItems(FirstItems + 2, FirstItems + 1, Dash))],
      [rc |-> 0, data |-> DataDict(<<>>)],
      [rc |-> 0, data |-> DataNull],
      [rc |-> 0, data |-> DataAbsent],
      [rc |-> 1, data |-> DataNull],
      [rc |-> 1, data |-> DataDict(SectorItems(2, 0, Dash))] }

\* the cells float() is applied to, in the order of the dict literal
SectorCells(item) ==
    <<Get(item, "f2", Num(0)), Get(item, "f3", Num(0)), Get(item, "f62", Num(0)),
      Get(item, "f184", Num(0)), Get(item, "f66", Num(0)), Get(item, "f69", Num(0)),
      Get(item, "f72", Num(0)), Get(item, "f75", Num(0)), Get(item, "f78", Num(0)),
      Get(item, "f81", Num(0)), Get(item, "f84", Num(0)), Get(item, "f87", Num(0))>>

\* the exception float() raises on the item, "" when it raises none
SectorItemRaises(item) ==
    LET cells == SectorCells(item)
        bad == {i \in 1..Len(cells) : cells[i].t # "num"}
    IN  IF bad = {} THEN ""
        ELSE IF cells[Min(bad)].t = "str" THEN "ValueError" ELSE "TypeError"

\* the dict built for one item
Concept(item) ==
    [code |-> Get(item, "f12", ""),
     name |-> Get(item, "f14", ""),
     current_price |-> Get(item, "f2", Num(0)).v,
     change_rate |-> Get(item, "f3", Num(0)).v,
     main_inflow |-> Get(item, "f62", Num(0)).v,
     main_inflow_ratio |-> Get(item, "f184", Num(0)).v,
     super_large_inflow |-> Get(item, "f66", Num(0)).v,
     super_large_inflow_ratio |-> Get(item, "f69", Num(0)).v,
     large_inflow |-> Get(item, "f72", Num(0)).v,
     large_inflow_ratio |-> Get(item, "f75", Num(0)).v,
     medium_inflow |-> Get(item, "f78", Num(0)).v,
     medium_inflow_ratio |-> Get(item, "f81", Num(0)).v,
     small_inflow |-> Get(item, "f84", Num(0)).v,
     small_inflow_ratio |-> Get(item, "f87", Num(0)).v,
     max_stock |-> Get(item, "f204", ""),
     max_stock_code |-> Get(item, "f205", ""),
     datetime |-> Get(item, "f124", "")]

\* the loop over data['data']['diff'][:10]: the list built, or the exception
\* of the first item float() rejects
ConceptsOf(diff) ==
    LET items == TakeFirst(diff, FirstItems)
        bad == {i \in 1..Len(items) : SectorItemRaises(items[i]) # ""}
    IN  IF bad = {}
        THEN [kind |-> "list", exc |-> "", concepts |-> [i \in 1..Len(items) |-> Concept(items[i])]]
        ELSE [kind |-> "raised", exc |-> SectorItemRaises(items[Min(bad)]), concepts |-> <<>>]

\* what the body after the retry loop does with the decoded response:
\*   "format_error"  rc is not 0, or there is no diff or an empty one
\*   "raised"        data is null (None.get), or float() rejects a cell
\*   "list"          the records of the first ten items
Processed(resp) ==
    IF resp.rc # 0 THEN [kind |-> "format_error", exc |-> "", concepts |-> <<>>]
    ELSE IF resp.data.t = "null"
    THEN [kind |-> "raised", exc |-> "AttributeError", concepts |-> <<>>]
    ELSE IF resp.data.diff = <<>> THEN [kind |-> "format_error", exc |-> "", concepts |-> <<>>]
    ELSE ConceptsOf(resp.data.diff)

\* a variant in which a report that cannot be written goes unlogged
SaveLogButReport(snapshotOk, fileOk, reportOk) ==
    IF ~snapshotOk THEN <<"snapshot_failed">>
    ELSE IF ~fileOk THEN <<"snapshot_saved", "history_failed">>
    ELSE IF ~reportOk THEN <<"snapshot_saved", "history_updated", "ranked">>
    ELSE <<"snapshot_saved", "history_updated", "ranked", "report_updated">>

\* what save_concept_data and the functions it calls log
SaveLog(snapshotOk, fileOk, reportOk) ==
    IF ~snapshotOk THEN <<"snapshot_failed">>
    ELSE IF ~fileOk THEN <<"snapshot_saved", "history_failed">>
    ELSE IF ~reportOk THEN <<"snapshot_saved", "history_updated", "ranked", "report_failed">>
    ELSE <<"snapshot_saved", "history_updated", "ranked", "report_updated">>

\* a variant that updates the history whether or not the snapshot was written
SaveConceptDataThenHistory(concepts, current_date, snapshotOk, fileOk, reportOk) ==
    /\ concept_data' = IF snapshotOk THEN [exists |-> TRUE, concepts |-> concepts]
                       ELSE concept_data
    /\ UpdateHistoricalData(concepts, current_date, fileOk, reportOk)

(***************************************************************************)
(* save_concept_data(concepts), with its call of update_historical_data.   *)
(*   snapshotOk  writing concept_section_data.json succeeds                *)
(***************************************************************************)
SaveConceptData(concepts, current_date, snapshotOk, fileOk, reportOk) ==
    IF snapshotOk
    THEN /\ concept_data' = [exists |-> TRUE, concepts |-> concepts]
         /\ UpdateHistoricalData(concepts, current_date, fileOk, reportOk)
    ELSE UNCHANGED fileVars

\* main: logs the start and calls get_top_concept_sections, which starts on
\* the retry loop of the API request
SectorMain ==
    /\ cpc = "idle"
    /\ cpc' = "request"
    /\ attempt' = 0
    /\ sector_calls' = Append(sector_calls, "api")
    /\ sector_log' = Append(sector_log, "start")
    /\ UNCHANGED <<data, top_concepts, summary>>
    /\ UNCHANGED <<fileVars, traceVars, stockVars, callVars>>

\* requests.get and raise_for_status succeed: break
RequestSucceeds ==
    /\ cpc = "request"
    /\ \E resp \in SectorResponses : data' = resp
    /\ cpc' = "fetched"
    /\ UNCHANGED <<attempt, sector_calls, top_concepts, summary, sector_log>>
    /\ UNCHANGED <<fileVars, traceVars, stockVars, callVars>>

\* the request raises RequestException before the last attempt: warn, sleep
RequestRetried ==
    /\ cpc = "request"
    /\ attempt < max_retries - 1
    /\ attempt' = attempt + 1
    /\ sector_log' = sector_log \o <<"retry", "sleep">>
    /\ UNCHANGED <<cpc, sector_calls, data, top_concepts, summary>>
    /\ UNCHANGED <<fileVars, traceVars, stockVars, callVars>>

\* the last attempt raises RequestException: re-raised, caught by the
\* function's handler, which logs and returns []
RequestGivenUp ==
    /\ cpc = "request"
    /\ ~(attempt < max_retries - 1)
    /\ sector_log' = Append(sector_log, "fetch_failed")
    /\ top_concepts' = [kind |-> "list", exc |-> "", concepts |-> <<>>]
    /\ cpc' = "returned"
    /\ UNCHANGED <<attempt, sector_calls, data, summary>>
    /\ UNCHANGED <<fileVars, traceVars, stockVars, callVars>>

\* the rest of get_top_concept_sections after the retry loop
ProcessResponse ==
    /\ cpc = "fetched"
    /\ LET result == Processed(data)
       IN  CASE result.kind = "format_error" ->
                  /\ sector_log' = Append(sector_log, "format_error")
                  /\ top_concepts' = [kind |-> "list", exc |-> "", concepts |-> <<>>]
                  /\ cpc' = "returned"
                  /\ UNCHANGED fileVars
             [] result.kind = "raised" ->
                  /\ top_concepts' = result
                  /\ cpc' = "crashed"
                  /\ UNCHANGED <<sector_log, fileVars>>
             [] result.kind = "list" ->
                  \E current_date \in Dates, snapshotOk, fileOk, reportOk \in BOOLEAN :
                      /\ SaveConceptData(result.concepts, current_date,
                                         snapshotOk, fileOk, reportOk)
                      /\ sector_log' = Append(sector_log, "fetched")
                                           \o SaveLog(snapshotOk, fileOk, reportOk)
                      /\ top_concepts' = result
                      /\ cpc' = "returned"
    /\ UNCHANGED <<attempt, sector_calls, data, summary>>
    /\ UNCHANGED <<traceVars, stockVars, callVars>>

\* the line main logs for a record
SummaryLine(concept) ==
    [name |-> concept.name, change_rate |-> concept.change_rate,
     main_inflow |-> concept.main_inflow,
     total_inflow |-> Get(concept, "super_large_inflow", 0) + Get(concept, "large_inflow", 0)]

\* main after get_top_concept_sections returned
SectorMainReport ==
    /\ cpc = "returned"
    /\ IF top_concepts.concepts # <<>>
       THEN /\ sector_log' = Append(sector_log, "success")
            /\ summary' = [i \in 1..Len(top_concepts.concepts) |->
                              SummaryLine(top_concepts.concepts[i])]
       ELSE /\ sector_log' = Append(sector_log, "no_data")
            /\ UNCHANGED summary
    /\ cpc' = "done"
    /\ UNCHANGED <<attempt, sector_calls, data, top_concepts>>
    /\ UNCHANGED <<fileVars, traceVars, stockVars, callVars>>

(***************************************************************************)
(* The state of each pipeline before it runs.                              *)
(***************************************************************************)
NoCall == [date |-> 0, names |-> <<>>]
SectorIdle ==
    /\ sorted_concepts = <<>>
    /\ report = NoReport
    /\ concept_data = NoConceptData
    /\ histError = FALSE
    /\ ranked = NotRanked
    /\ cpc = "idle"
    /\ attempt = 0
    /\ sector_calls = <<>>
    /\ data = NoResponse
    /\ top_concepts = NotFetched
    /\ summary = <<>>
    /\ sector_log = <<>>

NoArgs == [fn |-> "none"]
NoResult == [done |-> FALSE, value |-> 0]
CallIdle ==
    /\ fn_args = NoArgs
    /\ fn_result = NoResult

TraceIdle ==
    /\ histBefore = <<>>
    /\ lastCall = NoCall
    /\ prevCall = NoCall
    /\ nCalls = 0

StockIdle ==
    /\ akshare_available = FALSE
    /\ spc = "idle"
    /\ calls = <<>>
    /\ fetches = <<>>
    /\ raw_stocks = NotScraped
    /\ filter_input = <<>>
    /\ filtered_stocks = <<>>
    /\ enhanced_stocks = <<>>
    /\ selected_stocks = NoFile
    /\ stock_log = <<>>

(***************************************************************************)
(* parse_money_value(value).  A text is a sequence of characters: the      *)
(* digits "0", "1", "5", the point, the minus sign, a blank, "a" for any   *)
(* other character, "Y" for the unit 亿 and "W" for the unit 万.  A float   *)
(* is [v, per]: v ten-thousandths, divided by per.                         *)
(***************************************************************************)
\* ten-thousandths in one
MoneyScale == 10000
\* float(value) / 10000
WanPerYi == 10000

DigitValue == [c \in {"0", "1", "5"} |-> IF c = "0" THEN 0 ELSE IF c = "1" THEN 1 ELSE 5]
IsDigit(c) == c \in DOMAIN DigitValue

\* x / per as a float
Float(x, per) ==
    IF x % per = 0 THEN [v |-> x \div per, per |-> 1] ELSE [v |-> x, per |-> per]

RECURSIVE Pow10(_)
Pow10(n) == IF n = 0 THEN 1 ELSE 10 * Pow10(n - 1)

\* the number a run of digits writes
RECURSIVE IntValue(_)
IntValue(digits) ==
    IF digits = <<>> THEN 0
    ELSE 10 * IntValue(SubSeq(digits, 1, Len(digits) - 1)) + DigitValue[digits[Len(digits)]]

\* str.replace(old, ''): every occurrence of the character goes
RECURSIVE Remove(_, _)
Remove(text, old) ==
    IF text = <<>> THEN <<>>
    ELSE IF Head(text) = old THEN Remove(Tail(text), old)
    ELSE <<Head(text)>> \o Remove(Tail(text), old)

\* str.strip()
RECURSIVE StripLeft(_)
StripLeft(text) ==
    IF text # <<>> /\ Head(text) = " " THEN StripLeft(Tail(text)) ELSE text

RECURSIVE StripRight(_)
StripRight(text) ==
    IF text # <<>> /\ text[Len(text)] = " "
    THEN StripRight(SubSeq(text, 1, Len(text) - 1)) ELSE text

Strip(text) == StripLeft(StripRight(text))

\* old in text
Contains(text, old) == \E i \in 1..Len(text) : text[i] = old

\* float(text): blanks around are ignored, then an optional minus sign and
\* digits with at most one point and at least one digit; anything else
\* raises ValueError.  [ok, v]: v in ten-thousandths.
FloatOf(text) ==
    LET t == Strip(text)
        body == IF t # <<>> /\ Head(t) = "-" THEN Tail(t) ELSE t
        points == {i \in 1..Len(body) : body[i] = "."}
        cut == IF points = {} THEN Len(body) + 1 ELSE Min(points)
        whole == SubSeq(body, 1, cut - 1)
        part == SubSeq(body, cut + 1, Len(body))
        wellFormed == /\ \A i \in 1..Len(body) : IsDigit(body[i]) \/ body[i] = "."
                      /\ Cardinality(points) <= 1
                      /\ Len(whole) + Len(part) > 0
                      /\ Len(part) <= 4
        size == IntValue(whole) * MoneyScale + IntValue(part) * Pow10(4 - Len(part))
    IN  IF ~wellFormed THEN [ok |-> FALSE, v |-> 0]
        ELSE [ok |-> TRUE, v |-> IF t # body THEN -size ELSE size]

\* parse_money_value: the units are removed first, so the test for 万 that
\* follows is made on a text that has none
ParseMoneyValue(value) ==
    LET stripped == Strip(Remove(Remove(value, "Y"), "W"))
    IN  IF ~FloatOf(stripped).ok THEN Float(0, 1)
        ELSE IF Contains(stripped, "W") THEN Float(FloatOf(stripped).v, WanPerYi)
        ELSE Float(FloatOf(stripped).v, 1)

(***************************************************************************)
(* Money runs: parse_money_value called on a text.                         *)
(***************************************************************************)
MoneyCharacters == {"0", "1", "5", ".", "-", " ", "a", "Y", "W"}

\* every text of up to MaxText characters, and some longer ones
MoneyTexts ==
    UNION { [1..n -> MoneyCharacters] : n \in 0..MaxText }
    \cup { <<"1", ".", "5", "Y">>, <<"1", "5", "0", "0", "0", "W">>, <<"a", "a", "a">>,
           <<" ", "1", ".", "5", " ", "Y">>, <<"1", "5", "0", "W", " ">>,
           <<"-", "0", ".", "5", "W">>, <<"1", "Y", "5">>, <<"1", "W", "Y">> }

InitMoney ==
    /\ historical_data = <<>>
    /\ SectorIdle
    /\ TraceIdle
    /\ StockIdle
    /\ fn_args \in { [fn |-> "parse_money_value", value |-> text] : text \in MoneyTexts }
    /\ fn_result = NoResult

ParseMoneyCall ==
    /\ fn_args.fn = "parse_money_value"
    /\ ~fn_result.done
    /\ fn_result' = [done |-> TRUE, value |-> ParseMoneyValue(fn_args.value)]
    /\ UNCHANGED <<fn_args, fileVars, traceVars, stockVars, runVars>>

NextMoney == ParseMoneyCall

SpecMoney == InitMoney /\ [][NextMoney]_vars

(***************************************************************************)
(* _parse_stock_item(item).  An item is a dict of the decoded script       *)
(* array; its values are numbers, texts and null.  Keys written in         *)
(* Chinese in the source are written in pinyin here.                       *)
(***************************************************************************)
Text(s) == [t |-> "text", v |-> s]

\* bool(x): None, 0 and '' are false
Truthy(x) ==
    CASE x.t = "null" -> FALSE
      [] x.t = "num" -> x.v # 0
      [] x.t = "text" -> x.v # ""
      [] OTHER -> TRUE

\* item.get(k1) or item.get(k2) or ... or default
RECURSIVE FirstTruthy(_, _, _)
FirstTruthy(item, keys, default) ==
    IF keys = <<>> THEN default
    ELSE IF Truthy(Get(item, Head(keys), Null)) THEN Get(item, Head(keys), Null)
    ELSE FirstTruthy(item, Tail(keys), default)

CodeKeys == <<"code", "codes", "gupiaodaima", "daima", "symbol", "f12">>
NameKeys == <<"name", "gupiaomingcheng", "mingcheng", "n", "f14">>
PriceKeys == <<"price", "zuixinjia", "p", "f2">>
ChangeRateKeys == <<"change_rate", "zhangdiefu", "zdp", "f3">>
FundInflowKeys == <<"fund_inflow", "zijinliuxiang">>
LianbanDaysKeys == <<"lianban_days", "lianbantianshu">>
MarketValueKeys == <<"market_value", "liutongshizhi">>
TurnoverRateKeys == <<"turnover_rate", "huanshoulv">>
PeRatioKeys == <<"pe_ratio", "shiyinglv">>

\* the values float() and int() are applied to, in the order they are
NumberArguments(item) ==
    <<FirstTruthy(item, PriceKeys, Num(0)), FirstTruthy(item, ChangeRateKeys, Num(0)),
      FirstTruthy(item, FundInflowKeys, Num(0)), FirstTruthy(item, LianbanDaysKeys, Num(1)),
      FirstTruthy(item, MarketValueKeys, Num(0)), FirstTruthy(item, TurnoverRateKeys, Num(0)),
      FirstTruthy(item, PeRatioKeys, Num(0))>>

NoStock == [t |-> "None"]

\* the dict returned, or None: for an item without a code, and when float()
\* or int() raises ValueError
ParseStockItem(item) ==
    LET code == FirstTruthy(item, CodeKeys, Text(""))
        numbers == NumberArguments(item)
    IN  IF \E i \in 1..Len(numbers) : numbers[i].t # "num" THEN NoStock
        ELSE IF ~Truthy(code) THEN NoStock
        ELSE [t |-> "dict",
              stock |->
                [code |-> code.v,
                 name |-> FirstTruthy(item, NameKeys, Text("")).v,
                 price |-> numbers[1].v,
                 change_rate |-> numbers[2].v,
                 fund_inflow |-> numbers[3].v,
                 lianban_days |-> numbers[4].v,
                 is_new_stock |-> Truthy(Get(item, "is_new_stock", Null)),
                 first_limit_time |-> FirstTruthy(item, <<"first_limit_time">>, Text("")).v,
                 last_limit_time |-> FirstTruthy(item, <<"last_limit_time">>, Text("")).v,
                 limit_type |-> FirstTruthy(item, <<"limit_type">>, Text("lianban")).v,
                 market_value |-> numbers[5].v,
                 turnover_rate |-> numbers[6].v,
                 pe_ratio |-> numbers[7].v,
                 is_st |-> FALSE,
                 update_time |-> Now]]

IsDict(parsed) == parsed.t = "dict"

\* _parse_stock_list: the dicts of the items that gave one
ParseStockList(items) ==
    LET parsed == [i \in 1..Len(items) |-> ParseStockItem(items[i])]
        kept == SelectSeq(parsed, IsDict)
    IN  [i \in 1..Len(kept) |-> kept[i].stock]

\* the list a page of the kind "data_array" assigns to its data variable:
\* dicts with a code key, the last with an empty code
ScriptArray ==
    << [code |-> Text("600001"), name |-> Text("xy"), price |-> Num(1050),
        change_rate |-> Num(1001), lianban_days |-> Num(2)],
       [f12 |-> Text("600002"), f14 |-> Text("y"), f2 |-> Num(880), f3 |-> Num(998)],
       [code |-> Text(""), name |-> Text("x"), price |-> Num(700)] >>

(***************************************************************************)
(* Item runs: _parse_stock_item called on an item.                         *)
(***************************************************************************)
\* every dict over some of the keys, with values of the set
DictsOver(keys, values) == UNION { [ks -> values] : ks \in SUBSET keys }

\* dict | other, for dicts of different keys
Merge(dict, other) ==
    [k \in DOMAIN dict \cup DOMAIN other |-> IF k \in DOMAIN dict THEN dict[k] ELSE other[k]]

ItemCodes == DictsOver({"code", "daima", "f12"}, {Text(""), Text("600001"), Text("600002")})
ItemPrices == DictsOver({"price", "p", "f2"}, {Num(0), Num(1050), Num(880), Dash})
ItemDays == DictsOver({"lianban_days"}, {Num(0), Num(3)})

StockItems ==
    { Merge(Merge(codes, prices), days) :
        codes \in ItemCodes, prices \in ItemPrices, days \in ItemDays }

InitItem ==
    /\ historical_data = <<>>
    /\ SectorIdle
    /\ TraceIdle
    /\ StockIdle
    /\ fn_args \in { [fn |-> "_parse_stock_item", item |-> item] : item \in StockItems }
    /\ fn_result = NoResult

ParseItemCall ==
    /\ fn_args.fn = "_parse_stock_item"
    /\ ~fn_result.done
    /\ fn_result' = [done |-> TRUE, value |-> ParseStockItem(fn_args.item)]
    /\ UNCHANGED <<fn_args, fileVars, traceVars, stockVars, runVars>>

NextItem == ParseItemCall

SpecItem == InitItem /\ [][NextItem]_vars

(***************************************************************************)
(* extract_concept_data(row).  A row is [index, cells]: the labels of the  *)
(* columns and the cell under each.  A cell is a text, or NaN.  A Chinese  *)
(* character is written as its pinyin syllable, one element of the text.   *)
(***************************************************************************)
NaN == <<"NaN">>

\* pd.isna(cell)
IsNa(cell) == cell = NaN

\* str(cell)
Str(cell) == IF IsNa(cell) THEN <<"n", "a", "n">> ELSE cell

\* label in row.index
HasColumn(row, label) == \E i \in 1..Len(row.index) : row.index[i] = label

\* row[label]
Cell(row, label) == row.cells[CHOOSE i \in 1..Len(row.index) : row.index[i] = label]

\* row.iloc[k]
ILoc(row, k) == row.cells[k + 1]

\* parse_percentage(value)
ParsePercentage(value) ==
    LET stripped == Strip(Remove(value, "%"))
    IN  IF FloatOf(stripped).ok THEN Float(FloatOf(stripped).v, 1) ELSE Float(0, 1)

\* the names extract_concept_data gives no record for
InvalidNames ==
    { <<>>, <<"ming", "cheng">>, <<"ban", "kuai">>, <<"gai", "nian">>, <<"n", "a", "n">> }

\* super_large_inflow + large_inflow
AddFloat(a, b) == Float(a.v * b.per + b.v * a.per, a.per * b.per)

\* the lookup of a money field that has a positional fallback
MoneyAt(row, label, k) ==
    IF HasColumn(row, label) THEN ParseMoneyValue(Str(Cell(row, label)))
    ELSE IF Len(row.cells) > k THEN ParseMoneyValue(Str(ILoc(row, k)))
    ELSE Float(0, 1)

\* the lookup of a money field that has none
MoneyNamed(row, label) ==
    IF HasColumn(row, label) THEN ParseMoneyValue(Str(Cell(row, label))) ELSE Float(0, 1)

EmptyDict == [t |-> "empty"]

ExtractConceptData(row) ==
    LET name == IF HasColumn(row, "name")
                THEN (IF IsNa(Cell(row, "name")) THEN <<>> ELSE Strip(Str(Cell(row, "name"))))
                ELSE IF Len(row.cells) > 1 THEN Strip(Str(ILoc(row, 1))) ELSE <<>>
        change_rate == IF HasColumn(row, "change_rate")
                       THEN ParsePercentage(Str(Cell(row, "change_rate")))
                       ELSE IF Len(row.cells) > 2 THEN ParsePercentage(Str(ILoc(row, 2)))
                       ELSE Float(0, 1)
        super_large_inflow == MoneyAt(row, "super_large_inflow", 4)
        large_inflow == MoneyAt(row, "large_inflow", 6)
        max_stock == IF HasColumn(row, "max_stock")
                     THEN (IF IsNa(Cell(row, "max_stock")) THEN <<>>
                           ELSE Strip(Str(Cell(row, "max_stock"))))
                     ELSE IF Len(row.cells) > 9 THEN Strip(Str(ILoc(row, 9))) ELSE <<>>
    IN  IF name \in InvalidNames THEN EmptyDict
        ELSE [t |-> "dict",
              concept |->
                [name |-> name,
                 change_rate |-> change_rate,
                 main_inflow |-> MoneyNamed(row, "main_inflow"),
                 super_large_inflow |-> super_large_inflow,
                 large_inflow |-> large_inflow,
                 medium_inflow |-> MoneyNamed(row, "medium_inflow"),
                 small_inflow |-> MoneyNamed(row, "small_inflow"),
                 max_stock |-> max_stock,
                 total_inflow |-> AddFloat(super_large_inflow, large_inflow)]]

(***************************************************************************)
(* Row runs: extract_concept_data called on a row.                         *)
(***************************************************************************)
\* the widest row
TableWidth == 10

\* the cell of a data row at each position: a rank, a name, a percentage,
\* amounts with their unit, the name of a stock
DataCells ==
    << <<"1">>, <<"x", "y">>, <<"5", ".", "1", "%">>, <<"1", "5", "Y">>, <<"1", "0", "Y">>,
       <<"0", ".", "5", "Y">>, <<"5", "Y">>, <<"-", "1", "Y">>, <<"1", ".", "5", "Y">>, <<"y", "x">> >>

\* the labels of a table none of whose headers was recognised
RawIndex == <<"c0", "c1", "c2", "c3", "c4", "c5", "c6", "c7", "c8", "c9">>

\* labels after renaming, with the canonical names in different places
RowIndexes ==
    { RawIndex,
      <<"c0", "name", "change_rate", "main_inflow", "super_large_inflow", "c5",
        "large_inflow", "medium_inflow", "small_inflow", "max_stock">>,
      <<"name", "max_stock", "small_inflow", "medium_inflow", "large_inflow",
        "super_large_inflow", "main_inflow", "change_rate", "c8", "c9">>,
      <<"c0", "name", "c2", "c3", "c4", "c5", "c6", "c7", "c8", "c9">>,
      <<"c0", "c1", "c2", "c3", "c4", "c5", "c6", "main_inflow", "medium_inflow",
        "small_inflow">>,
      <<"c0", "c1", "change_rate", "c3", "large_inflow", "c5", "super_large_inflow",
        "c7", "c8", "max_stock">> }

\* what the cell at a position may hold instead of its data
OtherCells == { NaN, <<>>, <<"ming", "cheng">>, <<" ", "x", " ">>, <<"a">> }

\* the rows: each index cut to each width, the data cells under it, one
\* cell at most replaced
Rows ==
    { [index |-> SubSeq(index, 1, width), cells |-> SubSeq(DataCells, 1, width)] :
        index \in RowIndexes, width \in 1..TableWidth }
    \cup
    { [index |-> index, cells |-> [DataCells EXCEPT ![k] = cell]] :
        index \in RowIndexes, k \in 1..TableWidth, cell \in OtherCells }

InitRow ==
    /\ historical_data = <<>>
    /\ SectorIdle
    /\ TraceIdle
    /\ StockIdle
    /\ fn_args \in { [fn |-> "extract_concept_data", row |-> row] : row \in Rows }
    /\ fn_result = NoResult

ExtractCall ==
    /\ fn_args.fn = "extract_concept_data"
    /\ ~fn_result.done
    /\ fn_result' = [done |-> TRUE, value |-> ExtractConceptData(fn_args.row)]
    /\ UNCHANGED <<fn_args, fileVars, traceVars, stockVars, runVars>>

NextRow == ExtractCall

SpecRow == InitRow /\ [][NextRow]_vars

(***************************************************************************)
(* standardize_column_names(table).  The table is the sequence of its      *)
(* column labels; a label is a text, a canonical name a text of one        *)
(* element.                                                                *)
(***************************************************************************)
\* keyword in col_str
ContainsText(text, keyword) ==
    \E i \in 0..(Len(text) - Len(keyword)) :
        SubSeq(text, i + 1, i + Len(keyword)) = keyword

\* any(keyword in col_str for keyword in keywords)
AnyKeyword(col_str, keywords) == \E keyword \in keywords : ContainsText(col_str, keyword)

NameKeywords == { <<"ming", "cheng">>, <<"ban", "kuai">>, <<"gai", "nian">> }
ChangeRateKeywords == { <<"zhang", "die", "fu">>, <<"zhang", "die">> }
MainInflowKeywords == { <<"zhu", "li", "jing", "liu", "ru">>, <<"zhu", "li", "liu", "ru">> }
SuperLargeKeywords ==
    { <<"chao", "da", "dan", "jing", "liu", "ru">>, <<"chao", "da", "dan", "liu", "ru">> }
LargeKeywords == { <<"da", "dan", "jing", "liu", "ru">>, <<"da", "dan", "liu", "ru">> }
MediumKeywords == { <<"zhong", "dan", "jing", "liu", "ru">>, <<"zhong", "dan", "liu", "ru">> }
SmallKeywords == { <<"xiao", "dan", "jing", "liu", "ru">>, <<"xiao", "dan", "liu", "ru">> }
MaxStockKeywords ==
    { <<"zhu", "li", "jing", "liu", "ru", "zui", "da", "gu">>, <<"zui", "da", "gu">> }

\* a variant that looks for the large-order keywords before the super-large ones
MappedNameLargeFirst(col) ==
    LET col_str == Strip(col)
    IN  IF AnyKeyword(col_str, NameKeywords) THEN <<"name">>
        ELSE IF AnyKeyword(col_str, ChangeRateKeywords) THEN <<"change_rate">>
        ELSE IF AnyKeyword(col_str, MainInflowKeywords) THEN <<"main_inflow">>
        ELSE IF AnyKeyword(col_str, LargeKeywords) THEN <<"large_inflow">>
        ELSE IF AnyKeyword(col_str, SuperLargeKeywords) THEN <<"super_large_inflow">>
        ELSE IF AnyKeyword(col_str, MediumKeywords) THEN <<"medium_inflow">>
        ELSE IF AnyKeyword(col_str, SmallKeywords) THEN <<"small_inflow">>
        ELSE IF AnyKeyword(col_str, MaxStockKeywords) THEN <<"max_stock">>
        ELSE col

\* the if/elif chain: the name the column has after table.rename, its own
\* when no branch is taken
MappedName(col) ==
    LET col_str == Strip(col)
    IN  IF AnyKeyword(col_str, NameKeywords) THEN <<"name">>
        ELSE IF AnyKeyword(col_str, ChangeRateKeywords) THEN <<"change_rate">>
        ELSE IF AnyKeyword(col_str, MainInflowKeywords) THEN <<"main_inflow">>
        ELSE IF AnyKeyword(col_str, SuperLargeKeywords) THEN <<"super_large_inflow">>
        ELSE IF AnyKeyword(col_str, LargeKeywords) THEN <<"large_inflow">>
        ELSE IF AnyKeyword(col_str, MediumKeywords) THEN <<"medium_inflow">>
        ELSE IF AnyKeyword(col_str, SmallKeywords) THEN <<"small_inflow">>
        ELSE IF AnyKeyword(col_str, MaxStockKeywords) THEN <<"max_stock">>
        ELSE col

\* the columns of the table returned
StandardizeColumnNames(columns) == [i \in 1..Len(columns) |-> MappedName(columns[i])]

(***************************************************************************)
(* Header runs: standardize_column_names called on a table.                *)
(***************************************************************************)
Headers ==
    { <<"xu", "hao">>,
      <<"ming", "cheng">>,
      <<" ", "ban", "kuai", "ming", "cheng", " ">>,
      <<"jin", "ri", "zhang", "die", "fu">>,
      <<"zhu", "li", "jing", "liu", "ru">>,
      <<"chao", "da", "dan", "jing", "liu", "ru">>,
      <<"da", "dan", "liu", "ru">>,
      <<"zhong", "dan", "jing", "liu", "ru">>,
      <<"xiao", "dan", "jing", "e">>,
      <<"zhu", "li", "jing", "liu", "ru", "zui", "da", "gu">>,
      <<"zui", "da", "gu">>,
      <<"gai", "nian", "zhang", "die">>,
      <<"name">> }

\* every table of up to MaxColumns columns
Tables == UNION { [1..n -> Headers] : n \in 0..MaxColumns }

InitHeader ==
    /\ historical_data = <<>>
    /\ SectorIdle
    /\ TraceIdle
    /\ StockIdle
    /\ fn_args \in { [fn |-> "standardize_column_names", columns |-> columns] :
                       columns \in Tables }
    /\ fn_result = NoResult

StandardizeCall ==
    /\ fn_args.fn = "standardize_column_names"
    /\ ~fn_result.done
    /\ fn_result' = [done |-> TRUE, value |-> StandardizeColumnNames(fn_args.columns)]
    /\ UNCHANGED <<fn_args, fileVars, traceVars, stockVars, runVars>>

NextHeader == StandardizeCall

SpecHeader == InitHeader /\ [][NextHeader]_vars

(***************************************************************************)
(* History runs: update_historical_data called again and again, on any     *)
(* date the clock may show and with any record list, from a store earlier  *)
(* runs left behind.                                                       *)
(***************************************************************************)
\* the record lists of the calls (only the names reach the store)
CallLists ==
    { <<[name |-> "A"], [name |-> "B"]>>,
      <<[name |-> "B"], [name |-> "C"], [name |-> "A"]>> }

\* what an earlier run stored on day d
EarlierNames(d) == IF d % 2 = 0 THEN <<"A", "C">> ELSE <<"D">>

\* the store left by daily runs on the days lo..hi (empty when lo > hi)
StoreOfDays(lo, hi) == [d \in lo..hi |-> Snapshot(d, EarlierNames(d))]

\* the stores a history run starts from: none yet, full, or one day short of full
EarlierStores ==
    { StoreOfDays(lo, hi) : lo \in Dates, hi \in 0..NumDates } 

InitHistory ==
    /\ historical_data \in
          { hd \in EarlierStores :
              Cardinality(DOMAIN hd) \in {0, HistoryDays - 1, HistoryDays} }
    /\ SectorIdle
    /\ CallIdle
    /\ histBefore = historical_data
    /\ lastCall = NoCall
    /\ prevCall = NoCall
    /\ nCalls = 0
    /\ StockIdle

\* a call that completes
HistoryCall ==
    /\ nCalls < MaxCalls
    /\ UNCHANGED concept_data
    /\ \E concepts \in CallLists, current_date \in Dates :
          /\ UpdateHistoricalData(concepts, current_date, TRUE, TRUE)
          /\ histBefore' = historical_data
          /\ prevCall' = lastCall
          /\ lastCall' = [date |-> current_date, names |-> ConceptNames(concepts)]
    /\ nCalls' = nCalls + 1
    /\ UNCHANGED <<stockVars, runVars, callVars>>

\* a call whose history file cannot be read or written
HistoryCallFails ==
    /\ nCalls < MaxCalls
    /\ UNCHANGED concept_data
    /\ \E concepts \in CallLists, current_date \in Dates :
          UpdateHistoricalData(concepts, current_date, FALSE, TRUE)
    /\ UNCHANGED <<traceVars, stockVars, runVars, callVars>>

NextHistory == HistoryCall \/ HistoryCallFails

SpecHistory == InitHistory /\ [][NextHistory]_vars

(***************************************************************************)
(* Ranking runs: generate_historical_statistics applied to a store.        *)
(***************************************************************************)
\* name lists a day of the store may hold
StatLists ==
    { <<"A", "B", "C", "D">>,
      <<"E", "F", "G", "H">>,
      <<"I", "J", "K", "L">>,
      <<"B", "A", "A">> }

\* every store over the days 1..StatDates whose days hold one of StatLists
StatStores ==
    UNION { [days -> StatLists] : days \in SUBSET (1..StatDates) }

SnapshotsOf(lists) == [d \in DOMAIN lists |-> Snapshot(d, lists[d])]

InitStats ==
    /\ historical_data \in { SnapshotsOf(lists) : lists \in StatStores }
    /\ SectorIdle
    /\ CallIdle
    /\ TraceIdle
    /\ StockIdle

Rank ==
    /\ ~ranked.done
    /\ UNCHANGED concept_data
    /\ RankAndReport(historical_data, TRUE)
    /\ UNCHANGED <<historical_data, histError, traceVars, stockVars, runVars, callVars>>

NextStats == Rank

SpecStats == InitStats /\ [][NextStats]_vars

(***************************************************************************)
(* Filter runs: main of lianban_scraper.py from the point where the scrape *)
(* has returned a list of records, any list of StockLists.                 *)
(***************************************************************************)
InitFilter ==
    /\ historical_data = <<>>
    /\ SectorIdle
    /\ CallIdle
    /\ TraceIdle
    /\ akshare_available = FALSE
    /\ spc = "scraped"
    /\ calls = <<>>
    /\ fetches = <<>>
    /\ raw_stocks \in {[kind |-> "list", stocks |-> stocks] : stocks \in StockLists}
    /\ filter_input = <<>>
    /\ filtered_stocks = <<>>
    /\ enhanced_stocks = <<>>
    /\ selected_stocks = NoFile
    /\ stock_log = <<>>

NextFilter == MainFilter \/ MainEnhance \/ MainSave

SpecFilter == InitFilter /\ [][NextFilter]_vars

(***************************************************************************)
(* Stock runs: one run of main of lianban_scraper.py, with or without the  *)
(* akshare library installed.                                              *)
(***************************************************************************)
InitStock ==
    /\ historical_data = <<>>
    /\ SectorIdle
    /\ CallIdle
    /\ TraceIdle
    /\ akshare_available \in BOOLEAN
    /\ spc = "idle"
    /\ calls = <<>>
    /\ fetches = <<>>
    /\ raw_stocks = NotScraped
    /\ filter_input = <<>>
    /\ filtered_stocks = <<>>
    /\ enhanced_stocks = <<>>
    /\ selected_stocks = NoFile
    /\ stock_log = <<>>

NextStock ==
    \/ MainStart \/ TryAkshare \/ TryApi \/ TryWebpage
    \/ MainNoData \/ MainFilter \/ MainEnhance \/ MainSave

SpecStock == InitStock /\ [][NextStock]_vars

(***************************************************************************)
(* Sector runs: one run of main of concept_section_screening.py, on any    *)
(* date, from a store earlier runs left behind.                            *)
(***************************************************************************)
InitSector ==
    /\ historical_data \in
          { hd \in EarlierStores :
              Cardinality(DOMAIN hd) \in {0, HistoryDays - 1, HistoryDays} }
    /\ SectorIdle
    /\ CallIdle
    /\ histBefore = historical_data
    /\ lastCall = NoCall
    /\ prevCall = NoCall
    /\ nCalls = 0
    /\ StockIdle

NextSector ==
    \/ SectorMain \/ RequestSucceeds \/ RequestRetried \/ RequestGivenUp
    \/ ProcessResponse \/ SectorMainReport

SpecSector == InitSector /\ [][NextSector]_vars

(***************************************************************************)
(* Save runs: both pipelines from the point where their records are in     *)
(* hand (the sector response decoded, the stock records enhanced), every   *)
(* write from there on succeeding or failing.                              *)
(***************************************************************************)
\* the responses get_top_concept_sections builds a record list from
ListResponses == { resp \in SectorResponses : Processed(resp).kind = "list" }

\* the one-record lists of which filter_stocks keeps the record
KeptLists == { list \in { <<stock>> : stock \in ListedStocks } : FilterStocks(list) # <<>> }

InitSave ==
    /\ historical_data \in
          { hd \in EarlierStores :
              Cardinality(DOMAIN hd) \in {0, HistoryDays - 1, HistoryDays} }
    /\ sorted_concepts = <<>>
    /\ report = NoReport
    /\ concept_data = NoConceptData
    /\ histError = FALSE
    /\ ranked = NotRanked
    /\ cpc = "fetched"
    /\ attempt = 0
    /\ sector_calls = <<"api">>
    /\ data \in ListResponses
    /\ top_concepts = NotFetched
    /\ summary = <<>>
    /\ sector_log = <<"start">>
    /\ CallIdle
    /\ histBefore = historical_data
    /\ lastCall = NoCall
    /\ prevCall = NoCall
    /\ nCalls = 0
    /\ akshare_available = FALSE
    /\ spc = "enhanced"
    /\ calls = <<>>
    /\ fetches = <<>>
    /\ \E list \in KeptLists :
          /\ raw_stocks = [kind |-> "list", stocks |-> AfterFilter(list)]
          /\ filter_input = list
          /\ filtered_stocks = FilterStocks(list)
          /\ enhanced_stocks = EnhanceStockData(FilterStocks(list))
    /\ selected_stocks = NoFile
    /\ stock_log = <<"start">>

NextSave == ProcessResponse \/ SectorMainReport \/ MainSave

SpecSave == InitSave /\ [][NextSave]_vars

(***************************************************************************)
(* Properties of parse_money_value.                                        *)
(***************************************************************************)
\* a numeric text: digits, possibly with a point and a sign, nothing else
IsNumericText(text) ==
    /\ FloatOf(text).ok
    /\ \A i \in 1..Len(text) : text[i] # " "

\* the text without its last character
Front(text) == SubSeq(text, 1, Len(text) - 1)

\* the text is a numeric text followed by the unit
HasUnit(text, unit) ==
    /\ text # <<>>
    /\ text[Len(text)] = unit
    /\ IsNumericText(Front(text))

\* C11: parse_money_value of a numeric text n followed by 亿 is n, of n
\* followed by 万 is n / 10000, and of a text float() rejects once the units
\* are removed is 0.0.
C11_MoneyUnits ==
    fn_result.done =>
        LET text == fn_args.value
        IN  /\ HasUnit(text, "Y") => fn_result.value = Float(FloatOf(Front(text)).v, 1)
            /\ HasUnit(text, "W") => fn_result.value = Float(FloatOf(Front(text)).v, WanPerYi)
            /\ ~FloatOf(Remove(Remove(text, "Y"), "W")).ok => fn_result.value = Float(0, 1)

(***************************************************************************)
(* Properties of _parse_stock_item.                                        *)
(***************************************************************************)
\* the value of the first of the keys the item has, the default when it has none
RECURSIVE FirstPresent(_, _, _)
FirstPresent(item, keys, default) ==
    IF keys = <<>> THEN default
    ELSE IF Head(keys) \in DOMAIN item THEN item[Head(keys)]
    ELSE FirstPresent(item, Tail(keys), default)

\* C17: each field of the record _parse_stock_item returns has the value of
\* the first alias key present in the item, in alias order, and the default
\* only when no alias is present: a first alias holding 0 or '' is used.
C17_FirstPresentAlias ==
    (fn_result.done /\ fn_result.value.t = "dict") =>
        LET item == fn_args.item
            stock == fn_result.value.stock
        IN  /\ stock.code = FirstPresent(item, CodeKeys, Text("")).v
            /\ stock.price = FirstPresent(item, PriceKeys, Num(0)).v
            /\ stock.lianban_days = FirstPresent(item, LianbanDaysKeys, Num(1)).v

\* the webpage adapter was given a page whose script assigns the array
ScriptArrayFetched ==
    \E k \in 1..Len(fetches) : fetches[k].to = "webpage" /\ fetches[k].answer = "data_array"

\* C16: given a page whose script assigns a non-empty list of dicts with a
\* code key to a data variable, scrape_lianban_from_webpage returns one
\* record for each item of the list that has a non-empty code.
C16_ScriptRecords ==
    ScriptArrayFetched =>
        \E i \in 1..Len(calls) :
            /\ calls[i].adapter = "webpage"
            /\ calls[i].stocks = ParseStockList(ScriptArray)
            /\ Len(calls[i].stocks) = 2

(***************************************************************************)
(* Properties of extract_concept_data.                                     *)
(***************************************************************************)
\* the positions the name, the change rate, the two largest inflows and the
\* leading stock are read from when their column is not named
NamePosition == 1
ChangeRatePosition == 2
SuperLargePosition == 4
LargePosition == 6
MaxStockPosition == 9

\* the positions left for the other fields
FreePositions ==
    (0..(TableWidth - 1))
       \ {NamePosition, ChangeRatePosition, SuperLargePosition, LargePosition, MaxStockPosition}

\* the money field is read from the named column, or else, in a row of full
\* width, from a cell at some position of its own
MoneyResolved(row, concept, label) ==
    IF HasColumn(row, label)
    THEN concept[label] = ParseMoneyValue(Str(Cell(row, label)))
    ELSE Len(row.cells) = TableWidth =>
            \E k \in FreePositions : concept[label] = ParseMoneyValue(Str(ILoc(row, k)))

\* C18: extract_concept_data reads every field from its named column and,
\* when the row has no such column, from the field's position; a field
\* keeps its default only when the row has neither.
C18_NamedThenPositional ==
    (fn_result.done /\ fn_result.value.t = "dict") =>
        LET row == fn_args.row
            concept == fn_result.value.concept
        IN  /\ concept.super_large_inflow
                  = MoneyAt(row, "super_large_inflow", SuperLargePosition)
            /\ concept.large_inflow = MoneyAt(row, "large_inflow", LargePosition)
            /\ ~HasColumn(row, "name") =>
                  concept.name = Strip(Str(ILoc(row, NamePosition)))
            /\ (~HasColumn(row, "change_rate") /\ Len(row.cells) > ChangeRatePosition) =>
                  concept.change_rate = ParsePercentage(Str(ILoc(row, ChangeRatePosition)))
            /\ (~HasColumn(row, "max_stock") /\ Len(row.cells) > MaxStockPosition) =>
                  concept.max_stock = Strip(Str(ILoc(row, MaxStockPosition)))
            /\ MoneyResolved(row, concept, "main_inflow")
            /\ MoneyResolved(row, concept, "medium_inflow")
            /\ MoneyResolved(row, concept, "small_inflow")

(***************************************************************************)
(* Properties of standardize_column_names.                                 *)
(***************************************************************************)
\* the keyword sets in their priority order, each with its canonical name
KeywordSets ==
    << [field |-> <<"name">>, keywords |-> NameKeywords],
       [field |-> <<"change_rate">>, keywords |-> ChangeRateKeywords],
       [field |-> <<"main_inflow">>, keywords |-> MainInflowKeywords],
       [field |-> <<"super_large_inflow">>, keywords |-> SuperLargeKeywords],
       [field |-> <<"large_inflow">>, keywords |-> LargeKeywords],
       [field |-> <<"medium_inflow">>, keywords |-> MediumKeywords],
       [field |-> <<"small_inflow">>, keywords |-> SmallKeywords],
       [field |-> <<"max_stock">>, keywords |-> MaxStockKeywords] >>

\* the sets of which a keyword is contained in the header
MatchingSets(header) ==
    { j \in 1..Len(KeywordSets) :
        \E keyword \in KeywordSets[j].keywords : ContainsText(header, keyword) }

\* C19: standardize_column_names leaves the number and the order of the
\* columns as they were; a column whose header contains a keyword of some
\* set gets the canonical name of the first such set in the priority order,
\* and a column whose header contains none keeps its label.
C19_FirstKeywordSet ==
    fn_result.done =>
        LET columns == fn_args.columns
            renamed == fn_result.value
        IN  /\ Len(renamed) = Len(columns)
            /\ \A i \in 1..Len(columns) :
                  renamed[i] = IF MatchingSets(columns[i]) = {} THEN columns[i]
                               ELSE KeywordSets[Min(MatchingSets(columns[i]))].field

\* a table with a header of two sets (super-large before large), a header
\* of none, and one of the lowest set was renamed
C19_Witness ==
    /\ fn_result.done
    /\ Len(fn_args.columns) = 3
    /\ fn_args.columns[1] = <<"xu", "hao">>
    /\ fn_args.columns[2] = <<"chao", "da", "dan", "jing", "liu", "ru">>
    /\ fn_args.columns[3] = <<"zui", "da", "gu">>
    /\ fn_result.value = << <<"xu", "hao">>, <<"super_large_inflow">>, <<"max_stock">> >>

\* the canonical field names
CanonicalNames == { KeywordSets[j].field : j \in 1..Len(KeywordSets) }

\* C23: on a table whose headers are all different, standardize_column_names
\* gives no canonical field name to two columns, so that a canonical field
\* looked up in a row is a single cell.
C23_CanonicalNamesUnique ==
    LET columns == fn_args.columns
        renamed == fn_result.value
    IN  ( /\ fn_result.done
          /\ \A i, j \in 1..Len(columns) : i # j => columns[i] # columns[j] ) =>
            \A i, j \in 1..Len(renamed) :
                (i # j /\ renamed[i] \in CanonicalNames) => renamed[i] # renamed[j]

(***************************************************************************)
(* Properties of a sector run.                                             *)
(***************************************************************************)
\* how often the run invoked the adapter
Invocations(adapter) ==
    Cardinality({i \in 1..Len(sector_calls) : sector_calls[i] = adapter})

\* the API request failed on every attempt of the retry loop
NetworkErrorAfterRetries == \E i \in 1..Len(sector_log) : sector_log[i] = "fetch_failed"

\* C1: a sector run whose API adapter failed with a network error after its
\* retries has invoked the table-scrape adapter exactly once when it ends;
\* with no records from either, get_top_concept_sections returned an empty
\* list and the last thing the run logged is the no-data outcome.
C1_TableFallback ==
    (cpc \in {"returned", "done", "crashed"} /\ NetworkErrorAfterRetries) =>
        /\ Invocations("table") = 1
        /\ top_concepts.kind = "list"
        /\ (cpc = "done" /\ top_concepts.concepts = <<>>) =>
               sector_log[Len(sector_log)] = "no_data"

\* the provider answered with exactly ten items and the run wrote the
\* current-snapshot file
TenItemsSaved ==
    /\ cpc \in {"returned", "done"}
    /\ data.data.t = "dict" /\ Len(data.data.diff) = 10
    /\ concept_data.exists

\* C7: after a run on a provider response of 10 items, the current-snapshot
\* file holds exactly 10 records and each of them has a total_inflow field
\* equal to its super_large_inflow plus its large_inflow.
C7_TotalInflow ==
    TenItemsSaved =>
        /\ Len(concept_data.concepts) = 10
        /\ \A i \in 1..Len(concept_data.concepts) :
              LET record == concept_data.concepts[i]
              IN  /\ "total_inflow" \in DOMAIN record
                  /\ record["total_inflow"]
                        = record["super_large_inflow"] + record["large_inflow"]

\* float() accepts every cell of the item
SectorItemWellFormed(item) == SectorItemRaises(item) = ""

\* the response is a list of items of which one at least, among those the
\* adapter reads, has a cell that is not a number
MalformedItemFetched ==
    /\ cpc \in {"returned", "done", "crashed"}
    /\ data.rc = 0
    /\ data.data.t = "dict"
    /\ \E i \in 1..Len(TakeFirst(data.data.diff, FirstItems)) :
          ~SectorItemWellFormed(data.data.diff[i])

\* C12: when an item of the sector response has a cell that cannot be
\* parsed, get_top_concept_sections skips the item and returns the records
\* of the well-formed items it read, and no exception leaves it or main.
C12_MalformedItemSkipped ==
    MalformedItemFetched =>
        LET kept == SelectSeq(TakeFirst(data.data.diff, FirstItems), SectorItemWellFormed)
        IN  /\ cpc # "crashed"
            /\ top_concepts.kind = "list"
            /\ top_concepts.concepts = [i \in 1..Len(kept) |-> Concept(kept[i])]

\* the run logged the event
Logged(log, event) == \E i \in 1..Len(log) : log[i] = event

\* C13: when the snapshot file, the history file or the report cannot be
\* written, the failure is logged, get_top_concept_sections still returns
\* every record it built from the response, and main goes on to log its
\* summary of them; when save_to_json cannot write, that is logged and the
\* stock pipeline's main ends with its enhanced records as they were.
C13_PersistenceNotFatal ==
    /\ cpc # "crashed"
    /\ cpc \in {"returned", "done"} =>
          /\ top_concepts = Processed(data)
          /\ top_concepts.concepts # <<>>
          /\ ~concept_data.exists => Logged(sector_log, "snapshot_failed")
          /\ (concept_data.exists /\ ~ranked.done) => Logged(sector_log, "history_failed")
          /\ (ranked.done /\ report = NoReport) => Logged(sector_log, "report_failed")
    /\ cpc = "done" =>
          /\ sector_log[Len(sector_log)] = "success"
          /\ Len(summary) = Len(top_concepts.concepts)
    /\ spc = "done" =>
          /\ ~selected_stocks.exists => stock_log[Len(stock_log)] = "save_failed"
          /\ enhanced_stocks = EnhanceStockData(filtered_stocks)
          /\ enhanced_stocks # <<>>

\* the snapshot file could not be written and neither could
\* selected_stocks.json: both runs ended, the sector run with its summary
C13_Witness ==
    /\ cpc = "done"
    /\ Logged(sector_log, "snapshot_failed")
    /\ ~concept_data.exists
    /\ Len(summary) = FirstItems
    /\ spc = "done"
    /\ ~selected_stocks.exists
    /\ Logged(stock_log, "save_failed")

\* every event b of the log has an event a before it
Precedes(log, a, b) ==
    \A j \in 1..Len(log) : log[j] = b => \E i \in 1..(j - 1) : log[i] = a

\* C22: a sector run writes the snapshot file, then the history file, then
\* the report.  The history store differs from what the run found only when
\* the fetch gave at least one record and the snapshot file holds this
\* run's records; the report is written only after the history file was,
\* from the store as written; a run whose fetch fails or gives no records
\* leaves the snapshot file, the history store and the report as they were.
C22_WriteOrder ==
    LET snapshotWritten == concept_data # NoConceptData
        historyModified == historical_data # histBefore
        reportWritten == report # NoReport
    IN  /\ Precedes(sector_log, "fetched", "snapshot_saved")
        /\ Precedes(sector_log, "snapshot_saved", "history_updated")
        /\ Precedes(sector_log, "history_updated", "report_updated")
        /\ snapshotWritten <=> Logged(sector_log, "snapshot_saved")
        /\ reportWritten <=> Logged(sector_log, "report_updated")
        /\ historyModified => Logged(sector_log, "history_updated")
        /\ (snapshotWritten \/ historyModified \/ reportWritten) =>
              /\ cpc \in {"returned", "done"}
              /\ top_concepts.kind = "list"
              /\ Len(top_concepts.concepts) >= 1
              /\ concept_data = [exists |-> TRUE, concepts |-> top_concepts.concepts]
        /\ reportWritten =>
              /\ ranked = [done |-> TRUE, hd |-> historical_data]
              /\ report.concepts = top_concepts.concepts
        /\ (cpc \in {"returned", "done", "crashed"} /\ top_concepts.concepts = <<>>) =>
              /\ concept_data = NoConceptData
              /\ historical_data = histBefore
              /\ report = NoReport

\* a run that wrote all three: the snapshot of its ten records, a store that
\* differs from the one it found, and the report showing the records
C22_Witness ==
    /\ cpc = "done"
    /\ sector_log = <<"start", "fetched", "snapshot_saved", "history_updated", "ranked",
                      "report_updated", "success">>
    /\ Len(top_concepts.concepts) = FirstItems
    /\ concept_data.concepts = top_concepts.concepts
    /\ historical_data # histBefore
    /\ Cardinality(DOMAIN histBefore) = HistoryDays
    /\ report.concepts = top_concepts.concepts

(***************************************************************************)
(* Properties of the requests.                                             *)
(***************************************************************************)
\* how often the run logged the event
Count(log, event) == Cardinality({i \in 1..Len(log) : log[i] = event})

\* the retry loop of get_top_concept_sections: a delay after each failed
\* attempt but the last, at most three attempts, the error raised after the
\* third only
SectorRetryLoop ==
    /\ attempt < max_retries
    /\ Count(sector_log, "retry") = attempt
    /\ Count(sector_log, "sleep") = attempt
    /\ Logged(sector_log, "fetch_failed") => attempt = max_retries - 1

\* a request of the stock pipeline that raised
FailedRequest(fetch) ==
    \/ fetch.to = "api" /\ fetch.answer.kind = "request_error"
    \/ fetch.to = "webpage" /\ fetch.answer = "request_error"

\* the requests at lo, lo + 1 and lo + 2 are three failed attempts of one request
ThreeAttempts(lo) ==
    /\ lo >= 1 /\ lo + max_retries - 1 <= Len(fetches)
    /\ \A k \in lo..(lo + max_retries - 1) :
          FailedRequest(fetches[k]) /\ fetches[k].to = fetches[lo].to

\* C14: every request of either pipeline goes through the retry loop: at
\* most 3 attempts, a delay between attempts, and the error reaches the
\* adapter only after the third failed attempt in a row.
C14_RetryLoop ==
    /\ SectorRetryLoop
    /\ \A i \in 1..Len(fetches) :
          FailedRequest(fetches[i]) =>
              \E lo \in (i - max_retries + 1)..i : ThreeAttempts(lo)

(***************************************************************************)
(* Properties of the source adapters of the stock pipeline.                *)
(***************************************************************************)
\* the adapters from the highest priority down, akshare only when installed
AdapterOrder ==
    IF akshare_available THEN <<"akshare", "api", "webpage">> ELSE <<"api", "webpage">>

\* C2: scrape_lianban_stocks invokes its adapters in one fixed priority
\* order (akshare when installed, API, webpage): the i-th adapter invoked is
\* the i-th of that order, every adapter invoked before another returned no
\* records, and when an adapter returns records that list is what the
\* function returns, no adapter being invoked after it.
C2_PriorityOrder ==
    /\ Len(calls) <= Len(AdapterOrder)
    /\ \A i \in 1..Len(calls) :
          /\ calls[i].adapter = AdapterOrder[i]
          /\ \A k \in 1..(i - 1) : calls[k].stocks = <<>>
    /\ \A i \in 1..Len(calls) :
          calls[i].stocks # <<>> =>
              /\ i = Len(calls)
              /\ spc # "scraped" \/ raw_stocks = [kind |-> "list", stocks |-> calls[i].stocks]
              /\ spc \notin {"akshare", "api", "webpage"}
    /\ spc = "scraped" =>
          \/ \E i \in 1..Len(calls) : calls[i].stocks # <<>>
          \/ Len(calls) = Len(AdapterOrder)

\* akshare returned nothing, the API adapter returned records, and those were
\* returned without the webpage adapter being invoked
C2_Witness ==
    /\ spc = "scraped"
    /\ akshare_available
    /\ Len(calls) = 2
    /\ calls[1].adapter = "akshare" /\ calls[1].stocks = <<>>
    /\ calls[2].adapter = "api" /\ Len(calls[2].stocks) = 2
    /\ raw_stocks.stocks = calls[2].stocks
    /\ \A i \in 1..Len(fetches) : fetches[i].to # "webpage"

\* how often the run requested the provider, whichever adapter did it
Requests(target) == Cardinality({i \in 1..Len(fetches) : fetches[i].to = target})

\* C21: within one run of scrape_lianban_stocks every source adapter is
\* invoked at most once; the API adapter, which makes one request each time
\* it is invoked, is not invoked again by the webpage adapter after it
\* failed or returned no records.
C21_AdapterOnce ==
    /\ \A adapter \in {"akshare", "api", "webpage"} :
          Cardinality({i \in 1..Len(calls) : calls[i].adapter = adapter}) <= 1
    /\ Requests("api") <= 1

\* every adapter invoked returned no records, and all were invoked
AllAdaptersFailed ==
    /\ Len(calls) = Len(AdapterOrder)
    /\ \A i \in 1..Len(calls) : calls[i].stocks = <<>>

\* C3: when every adapter fails or returns no records, scrape_lianban_stocks
\* returns an empty list, and main logs the no-data outcome and returns
\* without running filter, enrich or save.
C3_AllFailEmptyList ==
    AllAdaptersFailed =>
        /\ spc \in {"scraped", "done"}
        /\ raw_stocks = [kind |-> "list", stocks |-> <<>>]
        /\ spc = "done" =>
              /\ stock_log = <<"start", "no_data">>
              /\ filter_input = <<>> /\ filtered_stocks = <<>>
              /\ enhanced_stocks = <<>> /\ selected_stocks = NoFile

(***************************************************************************)
(* Properties of the history store.                                        *)
(***************************************************************************)
\* the dates a call on lastCall.date had in hand before evicting
DatesInHand == DOMAIN histBefore \cup {lastCall.date}

\* C4: after every call of update_historical_data the store holds at most
\* 10 dates; when the call's date makes 11 distinct dates, exactly one date
\* is evicted, the smallest of the 11, and every other date that was stored
\* before keeps its snapshot; when it does not, no date is evicted.
C4_HistoryCap ==
    /\ Cardinality(DOMAIN historical_data) <= HistoryDays
    /\ nCalls > 0 =>
          IF Cardinality(DatesInHand) = HistoryDays + 1
          THEN /\ DOMAIN historical_data = DatesInHand \ {Min(DatesInHand)}
               /\ \A k \in DOMAIN historical_data \ {lastCall.date} :
                     historical_data[k] = histBefore[k]
          ELSE /\ DOMAIN historical_data = DatesInHand
               /\ \A k \in DOMAIN histBefore \ {lastCall.date} :
                     historical_data[k] = histBefore[k]

\* a call on a new date found 10 dates stored and evicted an older one
C4_Witness ==
    /\ nCalls > 0
    /\ Cardinality(DOMAIN histBefore) = HistoryDays
    /\ lastCall.date \notin DOMAIN histBefore
    /\ lastCall.date \in DOMAIN historical_data
    /\ Min(DOMAIN histBefore) \notin DOMAIN historical_data
    /\ Cardinality(DOMAIN historical_data) = HistoryDays

C20_TodayStored ==
    nCalls > 0 =>
        /\ lastCall.date \in DOMAIN historical_data
        /\ historical_data[lastCall.date] = Snapshot(lastCall.date, lastCall.names)

(***************************************************************************)
(* Properties of the frequency ranking.                                    *)
(***************************************************************************)
\* the dates the ranking is about: those with fewer than 5 dates after them
ConsideredDates(hd) ==
    {d \in DOMAIN hd : Cardinality({e \in DOMAIN hd : e > d}) < StatDays}

\* the places <<date, index>> of the considered name lists
Places(hd) ==
    UNION { {<<d, i>> : i \in 1..Len(hd[d].concepts)} : d \in ConsideredDates(hd) }

NameAt(hd, p) == hd[p[1]].concepts[p[2]]

ConsideredNames(hd) == {NameAt(hd, p) : p \in Places(hd)}

Occurrences(hd, name) == Cardinality({p \in Places(hd) : NameAt(hd, p) = name})

\* place p comes before place q when the dates are walked in ascending
\* order and each list from its head
Before(p, q) == p[1] < q[1] \/ (p[1] = q[1] /\ p[2] < q[2])

\* name m is first encountered before name n
SeenBefore(hd, m, n) ==
    \E p \in Places(hd) :
        /\ NameAt(hd, p) = m
        /\ \A q \in Places(hd) : NameAt(hd, q) = n => Before(p, q)

\* C6: the ranking lists at most 10 names, all of them when there are at
\* most 10; each listed pair is a name of the 5 greatest dates' lists (all
\* dates when fewer) with the number of its occurrences there; counts
\* descend, equal counts keep first-encounter order; no name left out has a
\* strictly higher count than a listed one.
C6_Ranking ==
    ranked.done =>
        LET hd == ranked.hd
            R == sorted_concepts
            listed == {R[i][1] : i \in 1..Len(R)}
        IN  /\ Len(R) <= TopN
            /\ Len(R) = IF Cardinality(ConsideredNames(hd)) < TopN
                        THEN Cardinality(ConsideredNames(hd)) ELSE TopN
            /\ Cardinality(listed) = Len(R)
            /\ \A i \in 1..Len(R) :
                  /\ R[i][1] \in ConsideredNames(hd)
                  /\ R[i][2] = Occurrences(hd, R[i][1])
            /\ \A i, j \in 1..Len(R) :
                  i < j => \/ R[i][2] > R[j][2]
                           \/ /\ R[i][2] = R[j][2]
                              /\ SeenBefore(hd, R[i][1], R[j][1])
            /\ \A n \in ConsideredNames(hd) \ listed :
                  \A i \in 1..Len(R) : Occurrences(hd, n) <= R[i][2]

\* a ranking of more than 5 dates and more than 10 names, cut to 10, with
\* a tie and a strict descent in it
C6_Witness ==
    /\ ranked.done
    /\ Cardinality(DOMAIN ranked.hd) > StatDays
    /\ Cardinality(ConsideredNames(ranked.hd)) > TopN
    /\ Len(sorted_concepts) = TopN
    /\ sorted_concepts[1][2] > sorted_concepts[2][2]
    /\ sorted_concepts[2][2] = sorted_concepts[3][2]

\* the number of dates the ranking considered, 5 at most
DaysConsidered(hd) == Min({StatDays, Cardinality(ConsideredDates(hd))})

Letter(c) == IF c = "s" THEN "S" ELSE IF c = "t" THEN "T" ELSE c

\* the name holds S directly followed by T, in either case
HasSTMarker(name) ==
    \E i \in 1..(Len(name) - 1) : Letter(name[i]) = "S" /\ Letter(name[i + 1]) = "T"

HasSpecialCharacter(name) == Range(name) \cap {"*", "?", "!"} # {}

FieldOf(stock, key, absent) == IF key \in DOMAIN stock THEN stock[key] ELSE absent

\* none of the rejection conditions holds (a field the record lacks counts
\* as 0, a missing name as the empty name)
Acceptable(stock) ==
    /\ ~HasSTMarker(FieldOf(stock, "name", <<>>))
    /\ ~HasSpecialCharacter(FieldOf(stock, "name", <<>>))
    /\ FieldOf(stock, "price", 0) > 0
    /\ FieldOf(stock, "change_rate", 0) <= 2000
    /\ FieldOf(stock, "change_rate", 0) >= -2000
    /\ FieldOf(stock, "lianban_days", 0) > 0

AcceptableAt == {i \in 1..Len(filter_input) : Acceptable(filter_input[i])}

\* the index in filter_input of the j-th acceptable record
NthAcceptable(j) ==
    CHOOSE i \in AcceptableAt : Cardinality({k \in AcceptableAt : k <= i}) = j

\* the two records are the same but for the is_st flag
SameButFlag(a, b) ==
    /\ DOMAIN a \ {"is_st"} = DOMAIN b \ {"is_st"}
    /\ \A k \in DOMAIN a \ {"is_st"} : a[k] = b[k]

FilterRan == spc \in {"filtered", "enhanced", "done"}

\* C8: filter_stocks returns, in input order, exactly the input records for
\* which no rejection condition holds (ST marker in the name, one of * ? !
\* in the name, price <= 0, |changeRatePct| > 20, consecutiveLimitDays <= 0);
\* a change rate of exactly 20.00 does not reject, 20.01 does.
C8_FilterKeepsAcceptable ==
    FilterRan =>
        /\ Len(filtered_stocks) = Cardinality(AcceptableAt)
        /\ \A j \in 1..Len(filtered_stocks) :
              SameButFlag(filtered_stocks[j], filter_input[NthAcceptable(j)])
        /\ \A i \in 1..Len(filter_input) :
              LET stock == filter_input[i]
                  otherwiseFine == Acceptable(SetKey(stock, "change_rate", 0))
              IN  /\ (otherwiseFine /\ FieldOf(stock, "change_rate", 0) = 2000)
                        => i \in AcceptableAt
                  /\ FieldOf(stock, "change_rate", 0) = 2001 => i \notin AcceptableAt

\* a list whose first record, at exactly 20.00%, was kept and a later one,
\* at 20.01% and fine otherwise, was dropped, with a third record kept after it
C8_Witness ==
    /\ FilterRan
    /\ Len(filter_input) >= 3
    /\ filter_input[1]["change_rate"] = 2000 /\ Acceptable(filter_input[1])
    /\ filter_input[2]["change_rate"] = 2001
    /\ Acceptable(SetKey(filter_input[2], "change_rate", 0))
    /\ Acceptable(filter_input[3])
    /\ Len(filtered_stocks) = 2
    /\ filtered_stocks[1]["code"] = filter_input[1]["code"]
    /\ filtered_stocks[2]["code"] = filter_input[3]["code"]

AllOutputs ==
    Range(filtered_stocks) \cup Range(enhanced_stocks) \cup Range(selected_stocks.stocks)

\* C9: no record whose name carries the ST marker is among the records
\* filter_stocks returns, whatever its other fields are, and every record it
\* returns, and so every record enriched and saved, has is_st = FALSE.
C9_NoSpeciallyTreated ==
    /\ FilterRan =>
          \A i \in 1..Len(filter_input) :
              HasSTMarker(FieldOf(filter_input[i], "name", <<>>)) =>
                  \A j \in 1..Len(filtered_stocks) :
                      ~SameButFlag(filtered_stocks[j], filter_input[i])
    /\ \A stock \in AllOutputs :
          /\ "is_st" \in DOMAIN stock /\ stock["is_st"] = FALSE
          /\ ~HasSTMarker(FieldOf(stock, "name", <<>>))

\* the run saved its output; the input held a record named *ST.. that was
\* fine in every other field, and a record flagged is_st that was kept
C9_Witness ==
    /\ spc = "done" /\ selected_stocks.exists
    /\ \E i \in 1..Len(filter_input) :
          /\ filter_input[i]["name"] = <<"*", "S", "T", "x", "y">>
          /\ Acceptable(SetKey(filter_input[i], "name", <<"x", "y">>))
    /\ \E i \in 1..Len(filter_input), j \in 1..Len(selected_stocks.stocks) :
          /\ filter_input[i]["is_st"] = TRUE
          /\ selected_stocks.stocks[j]["code"] = filter_input[i]["code"]
          /\ selected_stocks.stocks[j]["is_st"] = FALSE

EnrichRan == spc \in {"enhanced", "done"}

\* the tier the ordered rule gives, stated tier by tier
TierIs(tier, days, turnover) ==
    LET high == days >= 5 /\ turnover > 2000
        mediumHigh == ~high /\ days >= 3 /\ turnover > 1500
        medium == ~high /\ ~mediumHigh /\ days >= 2 /\ turnover > 1000
    IN  /\ (tier = "high") = high
        /\ (tier = "medium-high") = mediumHigh
        /\ (tier = "medium") = medium
        /\ (tier = "low") = (~high /\ ~mediumHigh /\ ~medium)

\* C10: enhance_stock_data gives each record the risk level of the first
\* matching rule: days >= 5 and turnover > 20 high, days >= 3 and turnover
\* > 15 medium-high, days >= 2 and turnover > 10 medium, else low; days = 2
\* with turnover 10.0 is low and days = 5 with turnover 25 is high.
C10_RiskLevel ==
    EnrichRan =>
        /\ Len(enhanced_stocks) = Len(filtered_stocks)
        /\ \A j \in 1..Len(enhanced_stocks) :
              LET stock == enhanced_stocks[j]
                  days == filtered_stocks[j]["lianban_days"]
                  turnover == filtered_stocks[j]["turnover_rate"]
              IN  /\ stock["code"] = filtered_stocks[j]["code"]
                  /\ stock["risk_level"] \in {"high", "medium-high", "medium", "low"}
                  /\ TierIs(stock["risk_level"], days, turnover)
                  /\ (days = 2 /\ turnover = 1000) => stock["risk_level"] = "low"
                  /\ (days = 5 /\ turnover = 2500) => stock["risk_level"] = "high"

\* a list enriched to a low record of 2 days at 10.0 and a high record of 5 days at 25
C10_Witness ==
    /\ EnrichRan
    /\ \E i, j \in 1..Len(enhanced_stocks) :
          /\ enhanced_stocks[i]["lianban_days"] = 2
          /\ enhanced_stocks[i]["turnover_rate"] = 1000
          /\ enhanced_stocks[i]["risk_level"] = "low"
          /\ enhanced_stocks[j]["lianban_days"] = 5
          /\ enhanced_stocks[j]["turnover_rate"] = 2500
          /\ enhanced_stocks[j]["risk_level"] = "high"

====
